---------------------------- MODULE Spec2Model ----------------------------
(***************************************************************************)
(* Model of the natural-language-to-filter query engine of the             *)
(* ChartAnalyzer component (src/unnamed/part_004): the query interpreter   *)
(* analyzeSearchQuery with its PatternMatcher fallback parseBasicQuery,    *)
(* the filter engine applyFilters and the handlers that drive them.        *)
(*                                                                         *)
(* JavaScript strings are sequences of one-character strings, so that      *)
(* toLowerCase, includes, trim, Number(), new Date() and the regular       *)
(* expressions are computed character by character.                        *)
(***************************************************************************)
EXTENDS Integers, Sequences, FiniteSets, TLC

(***************************************************************************)
(* Bounds of the model.                                                    *)
(***************************************************************************)
MaxRows == 2
MaxFilters == 2
MaxInFlight == 2
MaxClock == 1
MaxSessions == 2
MaxCalls == 2
MaxChunks == 2

(***************************************************************************)
(* Characters and strings.                                                 *)
(***************************************************************************)
UpperLetters ==
  <<"A","B","C","D","E","F","G","H","I","J","K","L","M",
    "N","O","P","Q","R","S","T","U","V","W","X","Y","Z">>
LowerLetters ==
  <<"a","b","c","d","e","f","g","h","i","j","k","l","m",
    "n","o","p","q","r","s","t","u","v","w","x","y","z">>
DigitChars == <<"0","1","2","3","4","5","6","7","8","9">>

Range(f) == {f[i] : i \in DOMAIN f}

DigitSet == Range(DigitChars)
WordCharSet == Range(UpperLetters) \cup Range(LowerLetters) \cup DigitSet \cup {"_"}

IsDigit(c) == c \in DigitSet
\* \w of the regular expressions: [A-Za-z0-9_]
IsWordChar(c) == c \in WordCharSet
\* \s of the regular expressions, and the white space trim() and Number() strip
IsSpace(c) == c = " "

DigitValues == [c \in DigitSet |-> (CHOOSE i \in DOMAIN DigitChars : DigitChars[i] = c) - 1]
DigitVal(c) == DigitValues[c]

LowerOfUpper ==
  [c \in Range(UpperLetters) |->
     LowerLetters[CHOOSE i \in DOMAIN UpperLetters : UpperLetters[i] = c]]
\* String.prototype.toLowerCase, one character
LowerChar(c) == IF c \in DOMAIN LowerOfUpper THEN LowerOfUpper[c] ELSE c
\* String.prototype.toLowerCase
toLowerCase(s) == [i \in DOMAIN s |-> LowerChar(s[i])]

\* s.substring(a-1, b): the characters a..b of s (1-based, inclusive)
Sub(s, a, b) == IF a > b THEN <<>> ELSE SubSeq(s, a, b)

\* String.prototype.includes
includes(s, t) ==
  \E i \in 1..(Len(s) - Len(t) + 1) : Sub(s, i, i + Len(t) - 1) = t

\* String.prototype.trim
RECURSIVE TrimLeft(_)
TrimLeft(s) == IF s # <<>> /\ IsSpace(Head(s)) THEN TrimLeft(Tail(s)) ELSE s
RECURSIVE TrimRight(_)
TrimRight(s) ==
  IF s # <<>> /\ IsSpace(s[Len(s)]) THEN TrimRight(Sub(s, 1, Len(s) - 1)) ELSE s
trim(s) == TrimRight(TrimLeft(s))

(***************************************************************************)
(* Number(): StringToNumber.  White space is stripped, the empty string    *)
(* is 0, an optionally signed run of decimal digits is its value, anything *)
(* else is NaN.  (The strings of this model hold no '.', exponent, radix   *)
(* prefix or "Infinity".)                                                  *)
(***************************************************************************)
NaN == [nan |-> TRUE, v |-> 0]
Num(n) == [nan |-> FALSE, v |-> n]
isNaN(x) == x.nan

RECURSIVE DigitsValue(_)
DigitsValue(s) ==
  IF s = <<>> THEN 0 ELSE DigitsValue(Sub(s, 1, Len(s) - 1)) * 10 + DigitVal(s[Len(s)])

AllDigits(s) == s # <<>> /\ \A i \in DOMAIN s : IsDigit(s[i])

StringToNumber(s) ==
  LET t == trim(s) IN
  IF t = <<>> THEN Num(0)
  ELSE IF t[1] = "-" /\ AllDigits(Tail(t)) THEN Num(0 - DigitsValue(Tail(t)))
  ELSE IF t[1] = "+" /\ AllDigits(Tail(t)) THEN Num(DigitsValue(Tail(t)))
  ELSE IF AllDigits(t) THEN Num(DigitsValue(t))
  ELSE NaN

(***************************************************************************)
(* JavaScript values that reach the engine: a cell of a GridRow is a       *)
(* string, or undefined when the row has no such key; the fields of a      *)
(* filter that came from the analysis service are whatever JSON held.      *)
(***************************************************************************)
JUndef == [t |-> "undefined", s |-> <<>>, n |-> 0]
JNull == [t |-> "null", s |-> <<>>, n |-> 0]
JStr(s) == [t |-> "string", s |-> s, n |-> 0]
JNum(n) == [t |-> "number", s |-> <<>>, n |-> n]
JBool(b) == [t |-> "boolean", s |-> <<>>, n |-> IF b THEN 1 ELSE 0]
\* an object or array the model does not look into
JObject == [t |-> "object", s |-> <<>>, n |-> 0]

\* ToBoolean: what `!x` tests
Truthy(x) ==
  CASE x.t = "undefined" -> FALSE
    [] x.t = "null" -> FALSE
    [] x.t = "string" -> x.s # <<>>
    [] x.t = "number" -> x.n # 0
    [] x.t = "boolean" -> x.n # 0
    [] OTHER -> TRUE

\* Number(x)
Number(x) ==
  CASE x.t = "undefined" -> NaN
    [] x.t = "null" -> Num(0)
    [] x.t = "string" -> StringToNumber(x.s)
    [] x.t = "number" -> Num(x.n)
    [] x.t = "boolean" -> Num(x.n)
    [] OTHER -> NaN

(***************************************************************************)
(* new Date(x).getTime().  An instant is a day number since 1970-01-01    *)
(* and the milliseconds within the day.  The date-only ISO forms YYYY,     *)
(* YYYY-MM and YYYY-MM-DD are what the language defines; a string with no  *)
(* digit is an Invalid Date; what any other string parses to is left to    *)
(* the engine, and is read from legacyDate.                                *)
(***************************************************************************)
InvalidDate == [nan |-> TRUE, day |-> 0, ms |-> 0]
Instant(d, m) == [nan |-> FALSE, day |-> d, ms |-> m]

IsLeap(y) == (y % 4 = 0 /\ y % 100 # 0) \/ y % 400 = 0
DaysInMonth(y, m) ==
  IF m = 2 THEN (IF IsLeap(y) THEN 29 ELSE 28)
  ELSE IF m \in {4, 6, 9, 11} THEN 30 ELSE 31

\* days from 1970-01-01 to y-m-d of the proleptic Gregorian calendar
DaysFromCivil(y, m, d) ==
  LET yy == IF m <= 2 THEN y - 1 ELSE y
      era == yy \div 400
      yoe == yy - era * 400
      mp == IF m > 2 THEN m - 3 ELSE m + 9
      doy == (153 * mp + 2) \div 5 + d - 1
      doe == yoe * 365 + yoe \div 4 - yoe \div 100 + doy
  IN era * 146097 + doe - 719468

IsoFields(s) ==
  IF Len(s) = 4 /\ AllDigits(s) THEN <<DigitsValue(s), 1, 1>>
  ELSE IF Len(s) = 7 /\ AllDigits(Sub(s, 1, 4)) /\ s[5] = "-" /\ AllDigits(Sub(s, 6, 7))
    THEN <<DigitsValue(Sub(s, 1, 4)), DigitsValue(Sub(s, 6, 7)), 1>>
  ELSE IF Len(s) = 10 /\ AllDigits(Sub(s, 1, 4)) /\ s[5] = "-" /\ AllDigits(Sub(s, 6, 7))
          /\ s[8] = "-" /\ AllDigits(Sub(s, 9, 10))
    THEN <<DigitsValue(Sub(s, 1, 4)), DigitsValue(Sub(s, 6, 7)), DigitsValue(Sub(s, 9, 10))>>
  ELSE <<>>

IsIsoDate(s) ==
  LET f == IsoFields(s) IN
  /\ f # <<>>
  /\ f[2] \in 1..12
  /\ f[3] \in 1..DaysInMonth(f[1], f[2])

HasDigit(s) == \E i \in DOMAIN s : IsDigit(s[i])

\* the strings whose Date.parse the language leaves to the engine
IsLegacyDateString(s) == HasDigit(s) /\ ~IsIsoDate(s)

(***************************************************************************)
(* State.  (The log that trackUserBehavior appends to feeds the behaviour   *)
(* analysis feature only and is not part of the model.)                    *)
(***************************************************************************)
VARIABLES
  legacyDate,          \* the engine's Date.parse of the strings the language leaves open
  excelData,           \* useState: the uploaded table, or NoData for null
  inputValue,          \* inputManager.value: the text of the query box
  isAnalyzing,         \* useState
  aiAnalysis,          \* useState: the last InterpretationResult, or NoAnalysis for null
  filters,             \* useState: the applied filter list
  aiSuggestedFilters,  \* useState
  filteredData,        \* useState: the displayed rows
  hasSearched,         \* useState
  inflight,            \* the handleAISearch calls suspended at their await, oldest first
  now,                 \* Date.now()
  lastCall,            \* the analyzeSearchQuery call the last step completed, if it did
  data,                \* FilterEngine: the row list handed to applyFilters
  flt,                 \* FilterEngine: the filter list handed to applyFilters
  out,                 \* FilterEngine: the list applyFilters returned
  out2,                \* FilterEngine: the list returned by a second call
  pc,                  \* FilterEngine: which calls have been made
  icall,               \* QueryInterpreter: the query, table, service response and clock of a call
  ianswer,             \* QueryInterpreter: how that call of analyzeSearchQuery ended
  acall,               \* Aggregator: the rows and axes of a call of aggregateDataForChart
  aout,                \* Aggregator: what that call returned
  pcall,               \* PatternMatcher: the query, headers and clock of a call of parseBasicQuery
  pout,                \* PatternMatcher: what that call returned
  savedSessions,       \* useState: the sessions saveSession has stored, oldest first
  messages,            \* useStream useState: the chat messages
  isStreaming,         \* useStream useState
  streamError,         \* useStream useState `error`: a string, or NoStreamError for null
  abortControllerRef,  \* useStream useRef: the call whose controller it holds, 0 for null
  currentAssistantMessageRef, \* useStream useRef: the text streamed so far
  calls,               \* useStream: the sendMessage calls made, each with its position
  nextId               \* useStream: how many ids generateId has handed out

\* the state of the ChartAnalyzer component
uivars ==
  <<excelData, inputValue, isAnalyzing, aiAnalysis, filters, aiSuggestedFilters,
    filteredData, hasSearched, inflight, now, lastCall>>
\* the state of the calls of the filter engine on their own
fvars == <<data, flt, out, out2, pc>>
\* the state of the calls of the interpreter on their own
ivars == <<icall, ianswer>>
avars == <<acall, aout>>
\* the state of the calls of the pattern matcher on their own
pvars == <<pcall, pout>>
\* the saved sessions of the component
svars == <<savedSessions>>
\* the state of the useStream hook
stvars ==
  <<messages, isStreaming, streamError, abortControllerRef, currentAssistantMessageRef,
    calls, nextId>>
\* the state that uploads, searches and filter edits leave alone
ovars == <<pvars, svars, stvars>>
vars == <<legacyDate, uivars, fvars, ivars, avars, ovars>>

\* new Date(x).getTime()
DateOf(x) ==
  CASE x.t = "undefined" -> InvalidDate
    [] x.t = "null" -> Instant(0, 0)
    [] x.t = "number" -> Instant(0, x.n)
    [] x.t = "string" ->
         IF IsIsoDate(x.s)
           THEN LET f == IsoFields(x.s) IN Instant(DaysFromCivil(f[1], f[2], f[3]), 0)
         ELSE IF x.s \in DOMAIN legacyDate THEN legacyDate[x.s]
         ELSE InvalidDate
    [] OTHER -> InvalidDate

\* a.getTime() < b.getTime()
InstantLess(a, b) == a.day < b.day \/ (a.day = b.day /\ a.ms < b.ms)

(***************************************************************************)
(* FilterEngine: applyFilters.                                             *)
(***************************************************************************)
OpEquals == <<"e","q","u","a","l","s">>
OpContains == <<"c","o","n","t","a","i","n","s">>
OpGreater == <<"g","r","e","a","t","e","r">>
OpLess == <<"l","e","s","s">>
OpGreaterEqual == <<"g","r","e","a","t","e","r","E","q","u","a","l">>
OpLessEqual == <<"l","e","s","s","E","q","u","a","l">>

\* row[filter.column]
CellOf(row, column) ==
  IF column.t = "string" /\ column.s \in DOMAIN row THEN JStr(row[column.s]) ELSE JUndef

\* NumCompare with greaterEqual and lessEqual compared strictly
NumCompare_Strict(op, a, b) ==
  CASE op = OpGreater -> a > b
    [] op = OpLess -> a < b
    [] op = OpGreaterEqual -> a > b
    [] op = OpLessEqual -> a < b

\* the numeric comparison of one ordered operator
NumCompare(op, a, b) ==
  CASE op = OpGreater -> a > b
    [] op = OpLess -> a < b
    [] op = OpGreaterEqual -> a >= b
    [] op = OpLessEqual -> a <= b

\* the Date comparison of one ordered operator
DateCompare(op, a, b) ==
  CASE op = OpGreater -> InstantLess(b, a)
    [] op = OpLess -> InstantLess(a, b)
    [] op = OpGreaterEqual -> ~InstantLess(a, b)
    [] op = OpLessEqual -> ~InstantLess(b, a)

\* the cases "greater", "less", "greaterEqual", "lessEqual" of the switch
OrderedMatches(op, cellValue, filterValue) ==
  LET cellNum == Number(cellValue)
      filterNum == Number(filterValue)
      cellDate == DateOf(cellValue)
      filterDate == DateOf(filterValue)
  IN IF ~isNaN(cellNum) /\ ~isNaN(filterNum)
       THEN NumCompare(op, cellNum.v, filterNum.v)
     ELSE IF ~cellDate.nan /\ ~filterDate.nan
       THEN DateCompare(op, cellDate, filterDate)
     ELSE FALSE

\* filterValue.toLowerCase() is a TypeError unless filterValue is a string
FilterThrows(row, filter) ==
  /\ CellOf(row, filter.column).t = "string"
  /\ filter.operator.t = "string"
  /\ filter.operator.s \in {OpEquals, OpContains}
  /\ filter.value.t # "string"

\* a callback whose equals and contains compare without folding the case
RowMatches_CaseSensitive(row, filter) ==
  LET cellValue == CellOf(row, filter.column)
      filterValue == filter.value
      op == filter.operator
  IN IF cellValue.t \in {"undefined", "null"} THEN FALSE
     ELSE IF op.t # "string" THEN TRUE
     ELSE IF op.s = OpEquals THEN cellValue.s = filterValue.s
     ELSE IF op.s = OpContains THEN includes(cellValue.s, filterValue.s)
     ELSE IF op.s \in {OpGreater, OpLess, OpGreaterEqual, OpLessEqual}
       THEN OrderedMatches(op.s, cellValue, filterValue)
     ELSE TRUE

\* the callback of result.filter(...): does the row pass this filter
RowMatches(row, filter) ==
  LET cellValue == CellOf(row, filter.column)
      filterValue == filter.value
      op == filter.operator
  IN IF cellValue.t \in {"undefined", "null"} THEN FALSE
     ELSE IF op.t # "string" THEN TRUE
     ELSE IF op.s = OpEquals
       THEN toLowerCase(cellValue.s) = toLowerCase(filterValue.s)
     ELSE IF op.s = OpContains
       THEN includes(toLowerCase(cellValue.s), toLowerCase(filterValue.s))
     ELSE IF op.s \in {OpGreater, OpLess, OpGreaterEqual, OpLessEqual}
       THEN OrderedMatches(op.s, cellValue, filterValue)
     ELSE TRUE

\* filtersToApply.forEach(filter => result = result.filter(...)), from filter k on
RECURSIVE ApplyFrom(_, _, _)
ApplyFrom(result, filtersToApply, k) ==
  IF k > Len(filtersToApply) THEN [threw |-> FALSE, rows |-> result]
  ELSE IF \E i \in DOMAIN result : FilterThrows(result[i], filtersToApply[k])
    THEN [threw |-> TRUE, rows |-> <<>>]
  ELSE ApplyFrom(SelectSeq(result, LAMBDA row : RowMatches(row, filtersToApply[k])),
                 filtersToApply, k + 1)

\* applyFilters losing the first row of its input
applyFilters_DropFirst(rows, customFilters) ==
  ApplyFrom(IF rows = <<>> THEN <<>> ELSE Tail(rows), customFilters, 1)

\* applyFilters with each pass filtering `data` instead of `result`:
\* only the last filter takes effect
applyFilters_LastOnly(rows, customFilters) ==
  ApplyFrom(rows,
            IF customFilters = <<>> THEN <<>>
            ELSE <<customFilters[Len(customFilters)]>>, 1)

\* applyFilters returning from inside the loop: only the first filter is applied
applyFilters_FirstOnly(rows, customFilters) ==
  ApplyFrom(rows, IF customFilters = <<>> THEN <<>> ELSE <<Head(customFilters)>>, 1)

\* applyFilters handing back the surviving rows in the opposite order
applyFilters_Reversed(rows, customFilters) ==
  LET r == ApplyFrom(rows, customFilters, 1) IN
  [threw |-> r.threw, rows |-> [i \in DOMAIN r.rows |-> r.rows[Len(r.rows) + 1 - i]]]

\* applyFilters(data, customFilters) with customFilters given, as in every
\* call the properties below are about: the text search of the query box
\* runs only when customFilters is omitted
applyFilters(rows, customFilters) == ApplyFrom(rows, customFilters, 1)

(***************************************************************************)
(* PatternMatcher: parseBasicQuery.  Each regular expression is            *)
(* (\w+) sep literal sep (value), and no two adjacent pieces can match the *)
(* same character, so the greedy match from a start position is the only   *)
(* one there: backtracking never finds another.                            *)
(***************************************************************************)
\* the position after the run of \w characters that starts at i
RECURSIVE SkipWord(_, _)
SkipWord(q, i) == IF i <= Len(q) /\ IsWordChar(q[i]) THEN SkipWord(q, i + 1) ELSE i
\* the position after the run of \s characters that starts at i
RECURSIVE SkipSpace(_, _)
SkipSpace(q, i) == IF i <= Len(q) /\ IsSpace(q[i]) THEN SkipSpace(q, i + 1) ELSE i
\* the position after the run of \d characters that starts at i
RECURSIVE SkipDigits(_, _)
SkipDigits(q, i) == IF i <= Len(q) /\ IsDigit(q[i]) THEN SkipDigits(q, i + 1) ELSE i
\* the position after the run of [^,\s] characters that starts at i
RECURSIVE SkipValue(_, _)
SkipValue(q, i) ==
  IF i <= Len(q) /\ q[i] # "," /\ ~IsSpace(q[i]) THEN SkipValue(q, i + 1) ELSE i

\* the `patterns` array, in its order.  lit: the literal between name and
\* value; optS: the literal may be followed by one more "s" (contains?);
\* spaced: the separators are \s+ (contains) instead of \s*; digits: the
\* value is \d+ instead of [^,\s]+
patterns ==
  << [operator |-> OpGreater, lit |-> <<">">>, optS |-> FALSE, spaced |-> FALSE, digits |-> TRUE],
     [operator |-> OpLess, lit |-> <<"<">>, optS |-> FALSE, spaced |-> FALSE, digits |-> TRUE],
     [operator |-> OpGreaterEqual, lit |-> <<">", "=">>, optS |-> FALSE, spaced |-> FALSE, digits |-> TRUE],
     [operator |-> OpLessEqual, lit |-> <<"<", "=">>, optS |-> FALSE, spaced |-> FALSE, digits |-> TRUE],
     [operator |-> OpEquals, lit |-> <<"=">>, optS |-> FALSE, spaced |-> FALSE, digits |-> FALSE],
     [operator |-> OpContains, lit |-> <<"c","o","n","t","a","i","n">>, optS |-> TRUE, spaced |-> TRUE, digits |-> FALSE] >>

NoMatch == [found |-> FALSE, name |-> <<>>, value |-> <<>>, end |-> 0]

\* a matcher whose `>` and `<` patterns also read a following "="
MatchAt_SkipsEquals(q, i, p) ==
  LET a == SkipWord(q, i)
      b == SkipSpace(q, a)
      c0 == b + Len(p.lit)
      c == IF /\ c0 <= Len(q)
              /\ \/ p.optS /\ q[c0] = "s"
                 \/ Len(p.lit) = 1 /\ p.digits /\ q[c0] = "="
             THEN c0 + 1 ELSE c0
      d == SkipSpace(q, c)
      e == IF p.digits THEN SkipDigits(q, d) ELSE SkipValue(q, d)
  IN IF /\ a > i
        /\ (p.spaced => b > a)
        /\ c0 - 1 <= Len(q)
        /\ Sub(q, b, c0 - 1) = p.lit
        /\ (p.spaced => d > c)
        /\ e > d
       THEN [found |-> TRUE, name |-> Sub(q, i, a - 1), value |-> Sub(q, d, e - 1), end |-> e]
       ELSE [found |-> FALSE, name |-> <<>>, value |-> <<>>, end |-> 0]

\* the match of pattern p that starts exactly at position i of q
MatchAt(q, i, p) ==
  LET a == SkipWord(q, i)
      b == SkipSpace(q, a)
      c0 == b + Len(p.lit)
      c == IF p.optS /\ c0 <= Len(q) /\ q[c0] = "s" THEN c0 + 1 ELSE c0
      d == SkipSpace(q, c)
      e == IF p.digits THEN SkipDigits(q, d) ELSE SkipValue(q, d)
  IN IF /\ a > i
        /\ (p.spaced => b > a)
        /\ c0 - 1 <= Len(q)
        /\ Sub(q, b, c0 - 1) = p.lit
        /\ (p.spaced => d > c)
        /\ e > d
       THEN [found |-> TRUE, name |-> Sub(q, i, a - 1), value |-> Sub(q, d, e - 1), end |-> e]
       ELSE NoMatch

\* regex.exec with lastIndex = from - 1: the leftmost match at or after from
RECURSIVE Exec(_, _, _)
Exec(q, from, p) ==
  IF from > Len(q) THEN NoMatch
  ELSE LET m == MatchAt(q, from, p) IN
       IF IsWordChar(q[from]) /\ m.found THEN m ELSE Exec(q, from + 1, p)

\* while ((match = regex.exec(lowerQuery)) !== null): all matches of p in q
RECURSIVE AllMatches(_, _, _)
AllMatches(q, from, p) ==
  LET m == Exec(q, from, p) IN
  IF m.found THEN <<m>> \o AllMatches(q, m.end, p) ELSE <<>>

\* headers.find(header => header.toLowerCase().includes(columnName) ||
\*                        columnName.includes(header.toLowerCase()))
RECURSIVE FindColumn(_, _, _)
FindColumn(headers, i, columnName) ==
  IF i > Len(headers) THEN JUndef
  ELSE IF \/ includes(toLowerCase(headers[i]), columnName)
          \/ includes(columnName, toLowerCase(headers[i]))
    THEN JStr(headers[i])
  ELSE FindColumn(headers, i + 1, columnName)

\* the filters the matches of one pattern push onto fs, those pushed so far
RECURSIVE PushMatches(_, _, _, _, _, _)
PushMatches(fs, ms, k, p, headers, ts) ==
  IF k > Len(ms) THEN fs
  ELSE LET matchingColumn == FindColumn(headers, 1, ms[k].name)
           pushed ==
             IF Truthy(matchingColumn)
               THEN Append(fs,
                           [id |-> <<"basic_filter", ts, Len(fs)>>,
                            column |-> matchingColumn,
                            operator |-> JStr(p.operator),
                            value |-> JStr(trim(ms[k].value))])
               ELSE fs
       IN PushMatches(pushed, ms, k + 1, p, headers, ts)

\* patterns.forEach(...), from pattern j on
RECURSIVE ParseFrom(_, _, _, _, _)
ParseFrom(fs, j, lowerQuery, headers, ts) ==
  IF j > Len(patterns) THEN fs
  ELSE ParseFrom(
         PushMatches(fs, AllMatches(lowerQuery, 1, patterns[j]), 1,
                     patterns[j], headers, ts),
         j + 1, lowerQuery, headers, ts)

\* parseBasicQuery(query), over the headers of excelData, at Date.now() = ts
parseBasicQuery(query, headers, ts) ==
  ParseFrom(<<>>, 1, toLowerCase(query), headers, ts)

(***************************************************************************)
(* The strings of the model.                                               *)
(***************************************************************************)
s_age == <<"a","g","e">>
s_name == <<"n","a","m","e">>
s_zip == <<"z","i","p">>
s_30 == <<"3","0">>
s_25 == <<"2","5">>
s_28 == <<"2","8">>
s_John == <<"J","o","h","n">>
s_JOHN == <<"J","O","H","N">>
s_ann == <<"a","n","n">>
s_abc == <<"a","b","c">>
s_empty == <<>>
s_2024_01_01 == <<"2","0","2","4","-","0","1","-","0","1">>
s_2023_06_15 == <<"2","0","2","3","-","0","6","-","1","5">>

\* one row of the grid: column name -> cell
GridRow(age, name) == [h \in {s_age, s_name} |-> IF h = s_age THEN age ELSE name]

RowUniverse ==
  { GridRow(s_30, s_John),
    GridRow(s_25, s_ann),
    GridRow(s_empty, s_empty),
    GridRow(s_2023_06_15, s_abc) }

Filter(id, column, operator, value) ==
  [id |-> id, column |-> column, operator |-> operator, value |-> value]

\* a FilterCondition as the filter-management UI builds it: three strings
TypedFilter(n, column, operator, value) ==
  Filter(<<"f", n>>, JStr(column), JStr(operator), JStr(value))

FilterUniverse ==
  { TypedFilter(1, s_age, OpGreater, s_28),
    TypedFilter(2, s_age, OpLess, s_2024_01_01),
    TypedFilter(3, s_name, OpContains, s_JOHN),
    TypedFilter(4, s_name, OpEquals, s_ann),
    TypedFilter(5, s_age, OpLessEqual, s_30),
    TypedFilter(6, s_name, OpContains, s_empty),
    TypedFilter(7, s_zip, OpEquals, s_abc),
    TypedFilter(8, s_name, OpGreaterEqual, s_25) }

\* the sequences over S of length at most n
SeqsUpTo(S, n) == UNION {[1..k -> S] : k \in 0..n}

\* what an engine may make of a string the language leaves open
LegacyOutcomes == {InvalidDate, Instant(DaysFromCivil(2001, 1, 1), 0)}

\* the strings a row list and a filter list hand to new Date()
StringsOf(rows, fs) ==
  {rows[i][h] : i \in DOMAIN rows, h \in {s_age, s_name}}
    \cup {fs[k].value.s : k \in DOMAIN fs}

(***************************************************************************)
(* The component's state after construction (the useState initial values). *)
(***************************************************************************)
NoData == [present |-> FALSE, headers |-> <<>>, rows |-> <<>>]
ExcelData(headers, rows) == [present |-> TRUE, headers |-> headers, rows |-> rows]

\* a message: a template, the string spliced into it and the number spliced into it
Msg(text, arg, n) == [text |-> text, arg |-> arg, n |-> n]
\* the `error` key of a result that has none
NoError == Msg("<absent>", <<>>, 0)

NoAnalysis ==
  [present |-> FALSE, query |-> <<>>, interpretation |-> NoError, filters |-> <<>>,
   success |-> FALSE, error |-> NoError]
NoCall == [made |-> FALSE, outcome |-> "none", query |-> <<>>, result |-> NoAnalysis]

NoInterpreterCall == [query |-> <<>>, excel |-> NoData, resp |-> 0, at |-> 0]

NoAggregateCall == [rows |-> <<>>, xAxis |-> <<>>, yAxis |-> <<>>]
NotAggregated == [done |-> FALSE, rows |-> <<>>]

NoPatternCall == [clauses |-> <<>>, sp |-> <<>>, headers |-> <<>>, at |-> 0]
NotParsed == [done |-> FALSE, filters |-> <<>>]
PatternIdle == pcall = NoPatternCall /\ pout = NotParsed

\* no call of a function on its own has been made
SessionsIdle == savedSessions = <<>>
NoStreamError == <<"null">>
StreamIdle ==
  /\ messages = <<>>
  /\ isStreaming = FALSE
  /\ streamError = NoStreamError
  /\ abortControllerRef = 0
  /\ currentAssistantMessageRef = <<>>
  /\ calls = <<>>
  /\ nextId = 0
OthersIdle == PatternIdle /\ SessionsIdle /\ StreamIdle

UIInit ==
  /\ excelData = NoData
  /\ inputValue = <<>>
  /\ isAnalyzing = FALSE
  /\ aiAnalysis = NoAnalysis
  /\ filters = <<>>
  /\ aiSuggestedFilters = <<>>
  /\ filteredData = <<>>
  /\ hasSearched = FALSE
  /\ inflight = <<>>
  /\ now = 0
  /\ lastCall = NoCall

(***************************************************************************)
(* Specification of the filter engine: any row list, any filter list, and  *)
(* the calls of applyFilters on them.                                      *)
(***************************************************************************)
InitFilter ==
  /\ data \in SeqsUpTo(RowUniverse, MaxRows)
  /\ flt \in SeqsUpTo(FilterUniverse, MaxFilters)
  /\ legacyDate \in [{s \in StringsOf(data, flt) : IsLegacyDateString(s)} -> LegacyOutcomes]
  /\ out = <<>>
  /\ out2 = <<>>
  /\ pc = "start"
  /\ UIInit
  /\ icall = NoInterpreterCall
  /\ ianswer = NoCall
  /\ acall = NoAggregateCall
  /\ aout = NotAggregated
  /\ OthersIdle

\* filtered = applyFilters(allGridData, filtersToApply)
Apply ==
  /\ pc = "start"
  /\ out' = applyFilters(data, flt).rows
  /\ pc' = "applied"
  /\ UNCHANGED <<data, flt, out2, legacyDate, uivars, ivars, avars, ovars>>

\* applyFilters on its own result, with the same filters
Reapply ==
  /\ pc = "applied"
  /\ out2' = applyFilters(out, flt).rows
  /\ pc' = "reapplied"
  /\ UNCHANGED <<data, flt, out, legacyDate, uivars, ivars, avars, ovars>>

Reverse(q) == [i \in DOMAIN q |-> q[Len(q) + 1 - i]]

\* applyFilters on the same rows, with the filters in the opposite order
ApplySwapped ==
  /\ pc = "applied"
  /\ out2' = applyFilters(data, Reverse(flt)).rows
  /\ pc' = "swapped"
  /\ UNCHANGED <<data, flt, out, legacyDate, uivars, ivars, avars, ovars>>

NextFilter == Apply \/ Reapply \/ ApplySwapped

SpecFilter == InitFilter /\ [][NextFilter]_vars

(***************************************************************************)
(* Properties of the filter engine.                                        *)
(***************************************************************************)
IsOrderedOp(op) == op \in {OpGreater, OpLess, OpGreaterEqual, OpLessEqual}

InSeq(x, q) == \E i \in DOMAIN q : q[i] = x

RECURSIVE IsSubseq(_, _)
IsSubseq(a, b) ==
  IF a = <<>> THEN TRUE
  ELSE IF b = <<>> THEN FALSE
  ELSE IF Head(a) = Head(b) THEN IsSubseq(Tail(a), Tail(b))
  ELSE IsSubseq(a, Tail(b))

\* C5: filters combine with AND: the rows applyFilters returns are exactly
\* the input rows that pass the per-filter predicate of every filter of the
\* list (all rows when the list is empty).
C5_FiltersCombineWithAnd ==
  pc = "applied" =>
    out = SelectSeq(data, LAMBDA row : \A k \in DOMAIN flt : RowMatches(row, flt[k]))

\* two filters were applied: one row passed both and was returned, another
\* passed only one of them and was not
C5_Witness ==
  /\ pc = "applied"
  /\ Len(flt) = 2
  /\ \E i \in DOMAIN data :
       /\ RowMatches(data[i], flt[1]) /\ RowMatches(data[i], flt[2])
       /\ InSeq(data[i], out)
  /\ \E i \in DOMAIN data :
       /\ RowMatches(data[i], flt[1]) # RowMatches(data[i], flt[2])
       /\ ~InSeq(data[i], out)

\* C6: a row whose cell for the filter's column is undefined or the empty
\* string is excluded by that filter, whatever the operator and the value:
\* no returned row has such a cell for the column of a filter of the list.
C6_EmptyCellNeverMatches ==
  pc = "applied" =>
    \A i \in DOMAIN out : \A k \in DOMAIN flt :
      LET cell == CellOf(out[i], flt[k].column) IN
      cell.t # "undefined" /\ cell.s # <<>>

\* C7: applyFilters is pure and stable: the call leaves the input row list
\* and the filter list as they were, and what it returns is a subsequence of
\* the input (input rows only, in their original relative order).
C7_PureAndStable ==
  [][Apply => (data' = data /\ flt' = flt /\ IsSubseq(out', data))]_vars

\* two rows went in, in an order that matters, and both came out
C7_Witness ==
  /\ pc = "applied"
  /\ Len(data) = 2
  /\ data[1] # data[2]
  /\ flt # <<>>
  /\ out = data

\* C8: idempotence: applying the same filter list to the result of
\* applyFilters gives that result again.
C8_Idempotent == pc = "reapplied" => out2 = out

\* the second call ran on a result that had lost a row and kept a row
C8_Witness ==
  /\ pc = "reapplied"
  /\ flt # <<>>
  /\ out # <<>>
  /\ Len(out) < Len(data)

\* C9: order-invariance: for two filters f1, f2 the result of applying
\* [f1, f2] equals, as an ordered list, the result of applying [f2, f1].
C9_OrderInvariant == (pc = "swapped" /\ Len(flt) = 2) => out2 = out

\* two different filters: one row passes both, another passes only the
\* second, so the two orders go through different intermediate lists
C9_Witness ==
  /\ pc = "swapped"
  /\ Len(flt) = 2
  /\ flt[1] # flt[2]
  /\ out2 # <<>>
  /\ Len(out2) < Len(data)
  /\ \E i \in DOMAIN data : ~RowMatches(data[i], flt[1]) /\ RowMatches(data[i], flt[2])

BothNumeric(cell, value) ==
  cell.t = "string" /\ ~isNaN(StringToNumber(cell.s)) /\ ~isNaN(StringToNumber(value.s))

BothDates(cell, value) == ~DateOf(cell).nan /\ ~DateOf(value).nan

\* C10: under a single filter with operator greater, less, greaterEqual or
\* lessEqual, a row whose cell and the filter value both parse as numbers is
\* returned exactly when the numeric comparison >, <, >=, <= holds, and a
\* row for which neither both numeric parses nor both date parses succeed
\* is not returned.
C10_OrderedOperators ==
  (pc = "applied" /\ Len(flt) = 1 /\ IsOrderedOp(flt[1].operator.s)) =>
    \A i \in DOMAIN data :
      LET cell == CellOf(data[i], flt[1].column)
          value == flt[1].value
          op == flt[1].operator.s
          c == StringToNumber(cell.s).v
          v == StringToNumber(value.s).v
      IN /\ BothNumeric(cell, value) =>
              (InSeq(data[i], out) <=>
                 ((op = OpGreater /\ c > v) \/ (op = OpLess /\ c < v)
                    \/ (op = OpGreaterEqual /\ c >= v) \/ (op = OpLessEqual /\ c <= v)))
         /\ (~BothNumeric(cell, value) /\ ~BothDates(cell, value)) =>
              ~InSeq(data[i], out)

\* lessEqual kept a row whose number equals the filter's, and an ordered
\* filter dropped a row that is neither a number nor a date
C10_Witness ==
  /\ pc = "applied"
  /\ Len(flt) = 1
  /\ flt[1].operator.s = OpLessEqual
  /\ \E i \in DOMAIN data :
       LET cell == CellOf(data[i], flt[1].column) IN
       /\ BothNumeric(cell, flt[1].value)
       /\ StringToNumber(cell.s).v = StringToNumber(flt[1].value.s).v
       /\ InSeq(data[i], out)
  /\ \E i \in DOMAIN data :
       LET cell == CellOf(data[i], flt[1].column) IN
       /\ ~BothNumeric(cell, flt[1].value)
       /\ ~BothDates(cell, flt[1].value)
       /\ ~InSeq(data[i], out)

(***************************************************************************)
(* TabularStore: the projection of the table into named-field rows.        *)
(***************************************************************************)
\* a projection that keeps, under a name, the cell of the first column of
\* that name
convertToGridData_FirstWins(excel) ==
  [i \in DOMAIN excel.rows |->
     [h \in Range(excel.headers) |->
        LET index == CHOOSE j \in DOMAIN excel.headers :
                       /\ excel.headers[j] = h
                       /\ \A k \in DOMAIN excel.headers : excel.headers[k] = h => j <= k
        IN IF index <= Len(excel.rows[i]) THEN excel.rows[i][index] ELSE <<>>]]

\* convertToGridData: rowObj[header] = row[index] || "", header by header,
\* so a later column of the same name overwrites an earlier one
convertToGridData(excel) ==
  [i \in DOMAIN excel.rows |->
     [h \in Range(excel.headers) |->
        LET index == CHOOSE j \in DOMAIN excel.headers :
                       /\ excel.headers[j] = h
                       /\ \A k \in DOMAIN excel.headers : excel.headers[k] = h => k <= j
        IN IF index <= Len(excel.rows[i]) THEN excel.rows[i][index] ELSE <<>>]]

(***************************************************************************)
(* QueryInterpreter: analyzeSearchQuery.  What the analysis service did is *)
(* a response record:                                                      *)
(*   kind "transport"   fetch rejected, text = the error's message         *)
(*   kind "http"        a non-2xx status, text = the body response.text()  *)
(*                      read (readable = FALSE: reading it failed)         *)
(*   kind "notJson"     a 2xx status whose body response.json() rejects    *)
(*   kind "json"        a 2xx status with the JSON value `body`            *)
(***************************************************************************)
Response(kind, status, text, readable, body) ==
  [kind |-> kind, status |-> status, text |-> text, readable |-> readable, body |-> body]

\* JSON values of the response body
Body(success, error, payload) ==
  [t |-> "object", success |-> success, error |-> error, data |-> payload]
Payload(interpretation, fs) ==
  [t |-> "object", interpretation |-> interpretation, filters |-> fs]
Array(elems) == [t |-> "array", elems |-> elems]
Element(column, operator, value, id) ==
  [t |-> "object", column |-> column, operator |-> operator, value |-> value, id |-> id]

\* how the try block of analyzeSearchQuery ends: it returns or it throws
Returned(interpretation, fs) ==
  [ok |-> TRUE, message |-> NoError, interpretation |-> interpretation, filters |-> fs]
Thrown(message) ==
  [ok |-> FALSE, message |-> message, interpretation |-> NoError, filters |-> <<>>]

\* the condition of the throw inside analysisResult.filters.map
ElementInvalid(el) ==
  IF el.t = "object"
    THEN ~Truthy(el.column) \/ ~Truthy(el.operator) \/ el.value.t = "undefined"
    ELSE TRUE

\* the first index (1-based) at which the map callback throws, 0 if none
RECURSIVE FirstThrow(_, _)
FirstThrow(elems, i) ==
  IF i > Len(elems) THEN 0
  ELSE IF ElementInvalid(elems[i]) THEN i
  ELSE FirstThrow(elems, i + 1)

\* the map with the invalid elements dropped instead of thrown on
MapFilters_Salvage(interpretation, elems, ts) ==
  LET valid == SelectSeq([i \in DOMAIN elems |-> [el |-> elems[i], index |-> i - 1]],
                         LAMBDA e : ~ElementInvalid(e.el))
  IN Returned(interpretation,
              [i \in DOMAIN valid |->
                 [id |-> <<"ai_filter", ts, valid[i].index>>,
                  column |-> valid[i].el.column,
                  operator |-> valid[i].el.operator,
                  value |-> valid[i].el.value]])

\* the map keeping the id the service sent with each element
MapFilters_KeepServiceId(interpretation, elems, ts) ==
  IF FirstThrow(elems, 1) = 0
    THEN Returned(interpretation,
                  [i \in DOMAIN elems |->
                     [id |-> elems[i].id,
                      column |-> elems[i].column,
                      operator |-> elems[i].operator,
                      value |-> elems[i].value]])
    ELSE Thrown(Msg("Invalid filter structure at index ${n}", <<>>, FirstThrow(elems, 1) - 1))

\* filtersWithIds = analysisResult.filters.map((filter, index) => ...)
MapFilters(interpretation, elems, ts) ==
  LET bad == FirstThrow(elems, 1) IN
  IF bad = 0
    THEN Returned(interpretation,
                  [i \in DOMAIN elems |->
                     [id |-> <<"ai_filter", ts, i - 1>>,
                      column |-> elems[i].column,
                      operator |-> elems[i].operator,
                      value |-> elems[i].value]])
  ELSE IF elems[bad].t \in {"null", "undefined"}
    THEN Thrown(Msg("TypeError: Cannot read properties of null", <<>>, 0))
  ELSE Thrown(Msg("Invalid filter structure at index ${n}", <<>>, bad - 1))

\* ParseResult throwing, instead of substituting [], when filters is absent or no list
ParseResult_RequireList(result, ts) ==
  IF result.t \in {"null", "undefined"}
    THEN Thrown(Msg("TypeError: Cannot read properties of null", <<>>, 0))
  ELSE IF result.t # "object"
    THEN Thrown(Msg("Analysis failed", <<>>, 0))
  ELSE IF ~(Truthy(result.success) /\ Truthy(result.data))
    THEN IF Truthy(result.error)
           THEN Thrown(Msg("${arg}", result.error.s, 0))
           ELSE Thrown(Msg("Analysis failed", <<>>, 0))
  ELSE IF result.data.t \notin {"object", "array"}
    THEN Thrown(Msg("Analysis response is not a valid object", <<>>, 0))
  ELSE LET analysisResult ==
             IF result.data.t = "object" THEN result.data ELSE Payload(JUndef, JUndef)
           interpretation ==
             IF Truthy(analysisResult.interpretation)
               THEN Msg("${arg}", analysisResult.interpretation.s, 0)
               ELSE Msg("AI analysis completed", <<>>, 0)
           elems ==
             IF analysisResult.filters.t = "array" THEN analysisResult.filters.elems
             ELSE <<>>
       IN IF analysisResult.filters.t # "array"
            THEN Thrown(Msg("Analysis response has no filter list", <<>>, 0))
            ELSE MapFilters(interpretation, elems, ts)

\* the part of the try block that follows `const result = await response.json()`
ParseResult(result, ts) ==
  IF result.t \in {"null", "undefined"}
    THEN Thrown(Msg("TypeError: Cannot read properties of null", <<>>, 0))
  ELSE IF result.t # "object"
    THEN Thrown(Msg("Analysis failed", <<>>, 0))
  ELSE IF ~(Truthy(result.success) /\ Truthy(result.data))
    THEN IF Truthy(result.error)
           THEN Thrown(Msg("${arg}", result.error.s, 0))
           ELSE Thrown(Msg("Analysis failed", <<>>, 0))
  ELSE IF result.data.t \notin {"object", "array"}
    THEN Thrown(Msg("Analysis response is not a valid object", <<>>, 0))
  ELSE LET analysisResult ==
             IF result.data.t = "object" THEN result.data ELSE Payload(JUndef, JUndef)
           interpretation ==
             IF Truthy(analysisResult.interpretation)
               THEN Msg("${arg}", analysisResult.interpretation.s, 0)
               ELSE Msg("AI analysis completed", <<>>, 0)
           elems ==
             IF analysisResult.filters.t = "array" THEN analysisResult.filters.elems
             ELSE <<>>
       IN MapFilters(interpretation, elems, ts)

\* the try block of analyzeSearchQuery, given what the service did
TryBlock(resp, ts) ==
  CASE resp.kind = "transport" -> Thrown(Msg("Network error: ${arg}", resp.text, 0))
    [] resp.kind = "http" ->
         IF ~resp.readable
           THEN Thrown(Msg("API Error: ${n} - Unable to read error response", <<>>, resp.status))
         ELSE IF resp.text = <<>>
           THEN Thrown(Msg("API Error: ${n} - Server error", <<>>, resp.status))
         ELSE Thrown(Msg("API Error: ${n} - ${arg}", resp.text, resp.status))
    [] resp.kind = "notJson" -> Thrown(Msg("SyntaxError: ${arg}", resp.text, 0))
    [] resp.kind = "json" -> ParseResult(resp.body, ts)

Result(query, interpretation, fs, success, error) ==
  [present |-> TRUE, query |-> query, interpretation |-> interpretation,
   filters |-> fs, success |-> success, error |-> error]

\* the two interpretation texts of the catch block
FallbackNote == "Using basic pattern matching: Found ${n} filter(s). AI service unavailable."
GuidanceText ==
  "AI service unavailable. Try basic patterns like 'column > value', 'column contains text', or 'column = value'."

\* the catch block with `error instanceof Error` taken as false
Fallback_UnknownError(query, excel, message, ts) ==
  LET basicFilters == parseBasicQuery(query, excel.headers, ts) IN
  IF Len(basicFilters) > 0
    THEN Result(query, Msg(FallbackNote, <<>>, Len(basicFilters)), basicFilters, TRUE, NoError)
    ELSE Result(query, Msg(GuidanceText, <<>>, 0), <<>>, FALSE, Msg("Unknown error", <<>>, 0))

\* the catch block of analyzeSearchQuery
Fallback(query, excel, message, ts) ==
  LET basicFilters == parseBasicQuery(query, excel.headers, ts) IN
  IF Len(basicFilters) > 0
    THEN Result(query, Msg(FallbackNote, <<>>, Len(basicFilters)), basicFilters, TRUE, NoError)
    ELSE Result(query, Msg(GuidanceText, <<>>, 0), <<>>, FALSE, message)

Resolved(result) == [outcome |-> "resolved", result |-> result]
Rejected == [outcome |-> "rejected", result |-> NoAnalysis]

\* if (!inputManager.value.trim() || !excelData) return;
SearchReturnsEarly(text, excel) == trim(text) = <<>> \/ ~excel.present

\* analyzeSearchQuery with the validation of the filters moved out of the try
\* block: an invalid element rejects the promise
analyzeSearchQuery_ValidationEscapes(query, excel, resp, ts) ==
  IF ~excel.present THEN Rejected
  ELSE LET t == TryBlock(resp, ts) IN
       IF t.ok THEN Resolved(Result(query, t.interpretation, t.filters, TRUE, NoError))
       ELSE IF t.message.text = "Invalid filter structure at index ${n}" THEN Rejected
       ELSE Resolved(Fallback(query, excel, t.message, ts))

\* analyzeSearchQuery(query) called with the table `excel` in scope, the
\* service answering resp, Date.now() = ts
analyzeSearchQuery(query, excel, resp, ts) ==
  IF ~excel.present THEN Rejected
  ELSE LET t == TryBlock(resp, ts) IN
       IF t.ok THEN Resolved(Result(query, t.interpretation, t.filters, TRUE, NoError))
       ELSE Resolved(Fallback(query, excel, t.message, ts))

(***************************************************************************)
(* The tables, the query texts and the service behaviours of the model.    *)
(***************************************************************************)
s_blank == <<" ", " ">>
s_hello == <<"h","e","l","l","o">>
s_age_gt_28 == <<"a","g","e"," ",">"," ","2","8">>
s_age_ge_28 == <<"a","g","e"," ",">","="," ","2","8">>
s_Name_contains_John ==
  <<"N","a","m","e"," ","c","o","n","t","a","i","n","s"," ","J","o","h","n">>
s_age_gt_28_name_eq_ann ==
  <<"a","g","e"," ",">"," ","2","8",","," ","n","a","m","e"," ","="," ","a","n","n">>
s_john == <<"j","o","h","n">>
s_between == <<"b","e","t","w","e","e","n">>
s_down == <<"d","o","w","n">>
s_quota == <<"q","u","o","t","a">>
s_note == <<"n","o","t","e">>

Tables ==
  { ExcelData(<<s_age, s_name>>, << <<s_30, s_John>>, <<s_25, s_ann>> >>),
    ExcelData(<<s_name, s_zip>>, << <<s_JOHN, s_empty>> >>) }

\* what the user may have typed into the query box
Inputs == {s_blank, s_hello, s_age_gt_28}

AgeGreater28 == Element(JStr(s_age), JStr(OpGreater), JStr(s_28), JUndef)
NameContainsJohn == Element(JStr(s_name), JStr(OpContains), JStr(s_john), JStr(s_abc))
NameEqualsAnn == Element(JStr(s_name), JStr(OpEquals), JStr(s_ann), JStr(s_abc))

ServiceResponses ==
  << Response("transport", 0, s_down, TRUE, JNull),
     Response("http", 500, s_quota, TRUE, JNull),
     Response("http", 404, s_empty, TRUE, JNull),
     Response("http", 502, s_empty, FALSE, JNull),
     Response("notJson", 200, s_abc, TRUE, JNull),
     Response("json", 200, s_empty, TRUE, JNull),
     Response("json", 200, s_empty, TRUE, Body(JBool(FALSE), JStr(s_quota), JUndef)),
     Response("json", 200, s_empty, TRUE, Body(JBool(FALSE), JUndef, JUndef)),
     Response("json", 200, s_empty, TRUE, Body(JBool(TRUE), JUndef, JUndef)),
     Response("json", 200, s_empty, TRUE, Body(JBool(TRUE), JUndef, JStr(s_note))),
     \* the documented success shape
     Response("json", 200, s_empty, TRUE,
              Body(JBool(TRUE), JUndef, Payload(JStr(s_note), Array(<<AgeGreater28>>)))),
     Response("json", 200, s_empty, TRUE,
              Body(JBool(TRUE), JUndef,
                   Payload(JUndef, Array(<<NameContainsJohn, NameEqualsAnn>>)))),
     \* data.filters absent, and present but not a list
     Response("json", 200, s_empty, TRUE,
              Body(JBool(TRUE), JUndef, Payload(JStr(s_note), JUndef))),
     Response("json", 200, s_empty, TRUE,
              Body(JBool(TRUE), JUndef, Payload(JStr(s_note), JStr(s_abc)))),
     Response("json", 200, s_empty, TRUE,
              Body(JBool(TRUE), JUndef, Payload(JStr(s_note), JObject))),
     \* an element without a column, without a value, with an empty operator; null
     Response("json", 200, s_empty, TRUE,
              Body(JBool(TRUE), JUndef,
                   Payload(JStr(s_note),
                           Array(<<AgeGreater28,
                                   Element(JUndef, JStr(OpEquals), JStr(s_ann), JUndef)>>)))),
     Response("json", 200, s_empty, TRUE,
              Body(JBool(TRUE), JUndef,
                   Payload(JStr(s_note),
                           Array(<<Element(JStr(s_name), JStr(OpEquals), JUndef, JUndef),
                                   AgeGreater28>>)))),
     Response("json", 200, s_empty, TRUE,
              Body(JBool(TRUE), JUndef,
                   Payload(JStr(s_note),
                           Array(<<NameContainsJohn,
                                   Element(JStr(s_age), JStr(s_empty), JStr(s_28), JUndef)>>)))),
     Response("json", 200, s_empty, TRUE,
              Body(JBool(TRUE), JUndef, Payload(JStr(s_note), Array(<<AgeGreater28, JNull>>)))),
     \* elements that pass the validation with an operator outside the six,
     \* a null value
     Response("json", 200, s_empty, TRUE,
              Body(JBool(TRUE), JUndef,
                   Payload(JStr(s_note),
                           Array(<<Element(JStr(s_age), JStr(s_between), JStr(s_28), JUndef)>>)))),
     Response("json", 200, s_empty, TRUE,
              Body(JBool(TRUE), JUndef,
                   Payload(JStr(s_note),
                           Array(<<Element(JStr(s_name), JStr(OpContains), JNull, JUndef)>>)))) >>

\* the behaviours of the service the component is run against: a transport
\* failure, a non-2xx status, success:false, the documented success shape,
\* filters absent, an invalid element, an element with a null value
MainResponses == {1, 2, 7, 11, 13, 16, 21}

\* the strings of the component's tables, queries and responses whose
\* Date.parse is left to the engine
MainLegacyStrings == {s_30, s_25, s_28}

(***************************************************************************)
(* The component: its handlers as actions.                                 *)
(***************************************************************************)
Init ==
  /\ UIInit
  /\ legacyDate \in {[s \in MainLegacyStrings |-> o] : o \in LegacyOutcomes}
  /\ data = <<>>
  /\ flt = <<>>
  /\ out = <<>>
  /\ out2 = <<>>
  /\ pc = "idle"
  /\ icall = NoInterpreterCall
  /\ ianswer = NoCall
  /\ acall = NoAggregateCall
  /\ aout = NotAggregated
  /\ OthersIdle

\* handleFileUpload, from the parsed workbook on
HandleFileUpload(table) ==
  /\ excelData' = table
  /\ filteredData' = <<>>
  /\ hasSearched' = FALSE
  /\ filters' = <<>>
  /\ aiAnalysis' = NoAnalysis
  /\ aiSuggestedFilters' = <<>>
  /\ lastCall' = NoCall
  /\ UNCHANGED <<inputValue, isAnalyzing, inflight, now, legacyDate, fvars, ivars, avars, ovars>>

\* inputManager.updateValue: the user edits the query box (enabled once a
\* table is loaded)
UpdateValue(text) ==
  /\ excelData.present
  /\ inputValue # text
  /\ inputValue' = text
  /\ lastCall' = NoCall
  /\ UNCHANGED <<excelData, isAnalyzing, aiAnalysis, filters, aiSuggestedFilters,
                 filteredData, hasSearched, inflight, now, legacyDate, fvars, ivars, avars, ovars>>

\* handleAISearch up to `await analyzeSearchQuery(...)`, which suspends at
\* its fetch with the query and the table of this render in its closure
HandleAISearch ==
  IF SearchReturnsEarly(inputValue, excelData)
    THEN /\ lastCall' = NoCall
         /\ UNCHANGED <<excelData, inputValue, isAnalyzing, aiAnalysis, filters,
                        aiSuggestedFilters, filteredData, hasSearched,
                        inflight, now, legacyDate, fvars, ivars, avars, ovars>>
    ELSE /\ Len(inflight) < MaxInFlight
         /\ isAnalyzing' = TRUE
         /\ inflight' = Append(inflight, [query |-> trim(inputValue), excel |-> excelData])
         /\ lastCall' = NoCall
         /\ UNCHANGED <<excelData, inputValue, aiAnalysis, filters, aiSuggestedFilters,
                        filteredData, hasSearched, now, legacyDate, fvars, ivars, avars, ovars>>

\* the Search button: disabled while analyzing, without a query or a table
ClickSearch ==
  /\ ~isAnalyzing
  /\ trim(inputValue) # <<>>
  /\ excelData.present
  /\ HandleAISearch

\* Enter in the query box: the box is disabled only without a table
PressEnter ==
  /\ excelData.present
  /\ HandleAISearch

RemoveAt(q, i) == [j \in 1..(Len(q) - 1) |-> IF j < i THEN q[j] ELSE q[j + 1]]

\* the rest of handleAISearch with the failure branch clearing the filters
\* and the displayed rows
Complete_ClearsOnFailure(call, r) ==
  \E done \in {analyzeSearchQuery(call.query, call.excel, ServiceResponses[r], now)} :
  \E analysis \in {done.result} :
  \E applied \in {IF done.outcome = "resolved" /\ analysis.success
                    THEN applyFilters(convertToGridData(call.excel), analysis.filters)
                    ELSE [threw |-> FALSE, rows |-> <<>>]} :
     /\ lastCall' = [made |-> TRUE, outcome |-> done.outcome, query |-> call.query,
                     result |-> analysis]
     /\ IF done.outcome = "rejected"
          THEN UNCHANGED <<aiAnalysis, filters, aiSuggestedFilters, filteredData, hasSearched>>
        ELSE IF ~analysis.success
          THEN /\ aiAnalysis' = analysis
               /\ filters' = <<>>
               /\ aiSuggestedFilters' = <<>>
               /\ filteredData' = <<>>
               /\ hasSearched' = FALSE
        ELSE IF applied.threw
          THEN /\ aiAnalysis' = analysis
               /\ filters' = analysis.filters
               /\ aiSuggestedFilters' = analysis.filters
               /\ UNCHANGED <<filteredData, hasSearched>>
        ELSE /\ aiAnalysis' = analysis
             /\ filters' = analysis.filters
             /\ aiSuggestedFilters' = analysis.filters
             /\ filteredData' = applied.rows
             /\ hasSearched' = TRUE
     /\ isAnalyzing' = FALSE
     /\ inputValue' = <<>>
     /\ UNCHANGED <<excelData, now, legacyDate, fvars, ivars, avars, ovars>>

\* the rest of handleAISearch reading the table of the latest render
\* instead of the one in its closure
Complete_UsesCurrentTable(call, r) ==
  \E done \in {analyzeSearchQuery(call.query, call.excel, ServiceResponses[r], now)} :
  \E analysis \in {done.result} :
  \E applied \in {IF done.outcome = "resolved" /\ analysis.success
                    THEN applyFilters(convertToGridData(excelData), analysis.filters)
                    ELSE [threw |-> FALSE, rows |-> <<>>]} :
     /\ lastCall' = [made |-> TRUE, outcome |-> done.outcome, query |-> call.query,
                     result |-> analysis]
     /\ IF done.outcome = "rejected"
          THEN UNCHANGED <<aiAnalysis, filters, aiSuggestedFilters, filteredData, hasSearched>>
        ELSE IF ~analysis.success
          THEN /\ aiAnalysis' = analysis
               /\ UNCHANGED <<filters, aiSuggestedFilters, filteredData, hasSearched>>
        ELSE IF applied.threw
          THEN /\ aiAnalysis' = analysis
               /\ filters' = analysis.filters
               /\ aiSuggestedFilters' = analysis.filters
               /\ UNCHANGED <<filteredData, hasSearched>>
        ELSE /\ aiAnalysis' = analysis
             /\ filters' = analysis.filters
             /\ aiSuggestedFilters' = analysis.filters
             /\ filteredData' = applied.rows
             /\ hasSearched' = TRUE
     /\ isAnalyzing' = FALSE
     /\ inputValue' = <<>>
     /\ UNCHANGED <<excelData, now, legacyDate, fvars, ivars, avars, ovars>>

\* analyzeSearchQuery, called by `call`, runs to its end on the service's
\* response r, then the rest of handleAISearch (success branch, failure
\* branch or catch, then finally)
Complete(call, r) ==
  \E done \in {analyzeSearchQuery(call.query, call.excel, ServiceResponses[r], now)} :
  \E analysis \in {done.result} :
  \E applied \in {IF done.outcome = "resolved" /\ analysis.success
                    THEN applyFilters(convertToGridData(call.excel), analysis.filters)
                    ELSE [threw |-> FALSE, rows |-> <<>>]} :
     /\ lastCall' = [made |-> TRUE, outcome |-> done.outcome, query |-> call.query,
                     result |-> analysis]
     /\ IF done.outcome = "rejected"
          THEN UNCHANGED <<aiAnalysis, filters, aiSuggestedFilters, filteredData, hasSearched>>
        ELSE IF ~analysis.success
          THEN /\ aiAnalysis' = analysis
               /\ UNCHANGED <<filters, aiSuggestedFilters, filteredData, hasSearched>>
        ELSE IF applied.threw
          THEN /\ aiAnalysis' = analysis
               /\ filters' = analysis.filters
               /\ aiSuggestedFilters' = analysis.filters
               /\ UNCHANGED <<filteredData, hasSearched>>
        ELSE /\ aiAnalysis' = analysis
             /\ filters' = analysis.filters
             /\ aiSuggestedFilters' = analysis.filters
             /\ filteredData' = applied.rows
             /\ hasSearched' = TRUE
     /\ isAnalyzing' = FALSE
     /\ inputValue' = <<>>
     /\ UNCHANGED <<excelData, now, legacyDate, fvars, ivars, avars, ovars>>

\* the service answers the i-th suspended call with response r
Resume(i, r) ==
  /\ inflight' = RemoveAt(inflight, i)
  /\ Complete(inflight[i], r)

\* resetAll
ResetAll ==
  /\ excelData' = NoData
  /\ filteredData' = <<>>
  /\ hasSearched' = FALSE
  /\ inputValue' = <<>>
  /\ filters' = <<>>
  /\ aiAnalysis' = NoAnalysis
  /\ aiSuggestedFilters' = <<>>
  /\ isAnalyzing' = FALSE
  /\ lastCall' = NoCall
  /\ UNCHANGED <<inflight, now, legacyDate, fvars, ivars, avars, ovars>>

\* time passes
Tick ==
  /\ now < MaxClock
  /\ now' = now + 1
  /\ lastCall' = NoCall
  /\ UNCHANGED <<excelData, inputValue, isAnalyzing, aiAnalysis, filters,
                 aiSuggestedFilters, filteredData, hasSearched, inflight,
                 legacyDate, fvars, ivars, avars, ovars>>

Next ==
  \/ \E table \in Tables : HandleFileUpload(table)
  \/ \E text \in Inputs : UpdateValue(text)
  \/ ClickSearch
  \/ PressEnter
  \/ \E i \in DOMAIN inflight : \E r \in MainResponses : Resume(i, r)
  \/ ResetAll
  \/ Tick

Spec == Init /\ [][Next]_vars

(***************************************************************************)
(* Specification of the interpreter: the component with any table or none, *)
(* any text in the query box and any behaviour of the service, and one     *)
(* handleAISearch on them.                                                 *)
(***************************************************************************)
QueryTexts ==
  {s_blank, s_hello, s_age_gt_28, s_age_ge_28, s_Name_contains_John, s_age_gt_28_name_eq_ann}

InitInterpret ==
  /\ icall \in [query : QueryTexts, excel : Tables \cup {NoData},
                resp : DOMAIN ServiceResponses, at : 0..MaxClock]
  /\ ianswer = NoCall
  /\ acall = NoAggregateCall
  /\ aout = NotAggregated
  /\ OthersIdle
  /\ legacyDate = [s \in {} |-> InvalidDate]
  /\ UIInit
  /\ data = <<>>
  /\ flt = <<>>
  /\ out = <<>>
  /\ out2 = <<>>
  /\ pc = "idle"

\* handleAISearch: the early return, or
\* analysis = await analyzeSearchQuery(inputManager.value.trim())
Interpret ==
  /\ ianswer.outcome = "none"
  /\ IF SearchReturnsEarly(icall.query, icall.excel)
       THEN ianswer' = [made |-> FALSE, outcome |-> "returned early", query |-> <<>>,
                        result |-> NoAnalysis]
       ELSE \E done \in {analyzeSearchQuery(trim(icall.query), icall.excel,
                                            ServiceResponses[icall.resp], icall.at)} :
              ianswer' = [made |-> TRUE, outcome |-> done.outcome,
                          query |-> trim(icall.query), result |-> done.result]
  /\ UNCHANGED <<icall, legacyDate, uivars, fvars, avars, ovars>>

NextInterpret == Interpret

SpecInterpret == InitInterpret /\ [][NextInterpret]_vars

(***************************************************************************)
(* Properties of the interpreter.                                          *)
(***************************************************************************)
TheResponse == ServiceResponses[icall.resp]
TheResult == ianswer.result
\* what PatternMatcher makes of the query of the call
TheBasicFilters == parseBasicQuery(ianswer.query, icall.excel.headers, icall.at)

\* the shape {query, interpretation, filters, success, error?}
WellFormedResult(r, query) ==
  /\ r.present
  /\ r.query = query
  /\ r.interpretation # NoError
  /\ r.success \in BOOLEAN
  /\ DOMAIN r.filters = 1..Len(r.filters)
  /\ \A k \in DOMAIN r.filters : DOMAIN r.filters[k] = {"id", "column", "operator", "value"}
  /\ r.success => r.error = NoError
  /\ ~r.success => r.error # NoError

\* C1: analyzeSearchQuery never throws or rejects: whatever the query and
\* whatever the service does, every call handleAISearch makes completes
\* with a well-formed InterpretationResult for that query.
C1_NeverThrows ==
  ianswer.made =>
    /\ ianswer.outcome = "resolved"
    /\ WellFormedResult(TheResult, trim(icall.query))

\* a call was made, the service sent a 2xx payload, and the call ended in
\* the failure result
C1_Witness ==
  /\ ianswer.made
  /\ TheResponse.kind = "json"
  /\ ~TheResult.success
  /\ TheResult.error # NoError

\* an element of the service's list that lacks a non-empty column, a
\* non-empty operator or a defined value
LacksField(el) ==
  \/ el.t # "object"
  \/ el.column \in {JUndef, JStr(<<>>)}
  \/ el.operator \in {JUndef, JStr(<<>>)}
  \/ el.value = JUndef

\* a 2xx success response with a filters list
HasFilterList(resp) ==
  /\ resp.kind = "json"
  /\ resp.body.t = "object"
  /\ resp.body.success = JBool(TRUE)
  /\ resp.body.data.t = "object"
  /\ resp.body.data.filters.t = "array"

HasInvalidElement(resp) ==
  /\ HasFilterList(resp)
  /\ \E i \in DOMAIN resp.body.data.filters.elems : LacksField(resp.body.data.filters.elems[i])

\* transport error, non-2xx status, success:false or an invalid filter element
ServiceFailed(resp) ==
  \/ resp.kind \in {"transport", "http"}
  \/ (resp.kind = "json" /\ resp.body.t = "object" /\ resp.body.success = JBool(FALSE))
  \/ HasInvalidElement(resp)

\* the reason of each of these failures
FailureReason(resp) ==
  IF resp.kind = "transport" THEN Msg("Network error: ${arg}", resp.text, 0)
  ELSE IF resp.kind = "http" THEN
    (IF ~resp.readable
       THEN Msg("API Error: ${n} - Unable to read error response", <<>>, resp.status)
     ELSE IF resp.text = <<>> THEN Msg("API Error: ${n} - Server error", <<>>, resp.status)
     ELSE Msg("API Error: ${n} - ${arg}", resp.text, resp.status))
  ELSE IF resp.body.success = JBool(FALSE) THEN
    (IF resp.body.error.t = "string" /\ resp.body.error.s # <<>>
       THEN Msg("${arg}", resp.body.error.s, 0)
       ELSE Msg("Analysis failed", <<>>, 0))
  ELSE LET elems == resp.body.data.filters.elems
           i == CHOOSE j \in DOMAIN elems :
                  LacksField(elems[j]) /\ \A k \in 1..(j - 1) : ~LacksField(elems[k])
       IN IF elems[i].t = "object"
            THEN Msg("Invalid filter structure at index ${n}", <<>>, i - 1)
            ELSE Msg("TypeError: Cannot read properties of null", <<>>, 0)

\* C2: whenever the service call fails (transport error, non-2xx status,
\* success:false or an invalid filter element) the result is exactly the
\* fallback result: with at least one PatternMatcher filter it has
\* success = true, those filters and no error; with none it has
\* success = false, no filters and the reason of the failure as its error.
C2_FailureGivesFallback ==
  (ianswer.made /\ ServiceFailed(TheResponse)) =>
    /\ ianswer.outcome = "resolved"
    /\ IF TheBasicFilters # <<>>
         THEN /\ TheResult.success
              /\ TheResult.filters = TheBasicFilters
              /\ TheResult.error = NoError
         ELSE /\ ~TheResult.success
              /\ TheResult.filters = <<>>
              /\ TheResult.error = FailureReason(TheResponse)

\* the service answered with a non-2xx status, PatternMatcher found nothing
C2_Witness ==
  /\ ianswer.made
  /\ TheResponse.kind = "http"
  /\ TheBasicFilters = <<>>
  /\ ~TheResult.success
  /\ TheResult.error.n = 500

\* C3: if any element of the service's filters list lacks a non-empty
\* column, a non-empty operator or a defined value, no element of that
\* response is in the result: its filters are those of PatternMatcher only.
C3_InvalidElementDiscardsAll ==
  (ianswer.made /\ HasInvalidElement(TheResponse)) =>
    /\ TheResult.filters = TheBasicFilters
    /\ \A k \in DOMAIN TheResult.filters : TheResult.filters[k].id[1] = "basic_filter"

\* the response held a valid element beside the invalid one, and
\* PatternMatcher found a filter of its own
C3_Witness ==
  /\ ianswer.made
  /\ HasInvalidElement(TheResponse)
  /\ \E i \in DOMAIN TheResponse.body.data.filters.elems :
       ~LacksField(TheResponse.body.data.filters.elems[i])
  /\ TheResult.filters # <<>>

\* the result came from the catch block
TookFallback(r) == r.interpretation.text \in {FallbackNote, GuidanceText}

\* {success:true, data:{interpretation:string, filters:[{column,operator,value},...]}}
DocumentedShape(resp) ==
  /\ HasFilterList(resp)
  /\ resp.body.data.interpretation.t = "string"
  /\ \A i \in DOMAIN resp.body.data.filters.elems :
       LET el == resp.body.data.filters.elems[i] IN
       /\ el.t = "object"
       /\ el.column.t = "string"
       /\ el.operator.t = "string"
       /\ el.value.t = "string"

Is2xx(resp) == resp.kind \in {"json", "notJson"}

\* C4 as stated: any 2xx response whose shape differs from the documented
\* one makes the call take the PatternMatcher fallback path.
C4_AnyOtherShapeFallsBack ==
  (ianswer.made /\ Is2xx(TheResponse) /\ ~DocumentedShape(TheResponse)) =>
    TookFallback(TheResult)

\* a 2xx response the interpreter cannot use
Unusable(resp) ==
  \/ resp.kind = "notJson"
  \/ resp.body.t # "object"
  \/ ~Truthy(resp.body.success)
  \/ ~Truthy(resp.body.data)
  \/ resp.body.data.t \notin {"object", "array"}
  \/ /\ resp.body.data.t = "object"
     /\ resp.body.data.filters.t = "array"
     /\ \E i \in DOMAIN resp.body.data.filters.elems :
          LacksField(resp.body.data.filters.elems[i])

\* C4 amended: a 2xx response makes the call take the fallback path exactly
\* when its body is not JSON, is not an object with truthy success and data,
\* its data is not an object, or an element of data.filters lacks a
\* non-empty column, a non-empty operator or a defined value; a usable
\* response whose data.filters is absent or not a list is accepted as an AI
\* result with success = true and an empty filter list.
C4_UnusableShapesFallBack ==
  (ianswer.made /\ Is2xx(TheResponse)) =>
    /\ TookFallback(TheResult) <=> Unusable(TheResponse)
    /\ (~Unusable(TheResponse) /\ TheResponse.body.data.filters.t # "array") =>
         (TheResult.success /\ TheResult.filters = <<>> /\ TheResult.error = NoError)

\* the service sent success:true with data.filters not a list, and the call
\* returned an AI result with no filters
C4_Witness ==
  /\ ianswer.made
  /\ Is2xx(TheResponse)
  /\ ~Unusable(TheResponse)
  /\ TheResponse.body.data.filters.t = "string"
  /\ TheResult.success
  /\ TheResult.filters = <<>>
  /\ ~TookFallback(TheResult)

\* C11: within one InterpretationResult the filter ids are pairwise
\* distinct, on the AI path (whatever ids the service sent) and on the
\* PatternMatcher path, all ids being generated at one clock value.
C11_IdsDistinctInResult ==
  ianswer.made =>
    \A i, j \in DOMAIN TheResult.filters :
      i # j => TheResult.filters[i].id # TheResult.filters[j].id

\* an AI result of two filters that the service sent under one id
C11_Witness ==
  /\ ianswer.made
  /\ TheResult.success
  /\ ~TookFallback(TheResult)
  /\ Len(TheResult.filters) >= 2
  /\ HasFilterList(TheResponse)
  /\ TheResponse.body.data.filters.elems[1].id # JUndef
  /\ TheResponse.body.data.filters.elems[1].id = TheResponse.body.data.filters.elems[2].id

(***************************************************************************)
(* Specification of the filter list: a loaded table, AI searches that run  *)
(* from the click to their end with no other event between, and the        *)
(* operations of FilterManager on the list it is handed.                   *)
(***************************************************************************)
MaxFilterList == 2

ListQueries == {s_age_gt_28}
ListResponses == {1, 12}
\* the texts typed into a filter's value box
ValueTexts == {s_28}
\* operatorOptions offered by the operator select
OperatorChoices == {OpGreater}
\* the values Math.random() returns
RandomDraws == {1, 2}

InitFilterList ==
  /\ excelData \in Tables
  /\ inputValue = <<>>
  /\ isAnalyzing = FALSE
  /\ aiAnalysis = NoAnalysis
  /\ filters = <<>>
  /\ aiSuggestedFilters = <<>>
  /\ filteredData = <<>>
  /\ hasSearched = FALSE
  /\ inflight = <<>>
  /\ now = 0
  /\ lastCall = NoCall
  /\ legacyDate \in {[s \in MainLegacyStrings |-> o] : o \in LegacyOutcomes}
  /\ data = <<>>
  /\ flt = <<>>
  /\ out = <<>>
  /\ out2 = <<>>
  /\ pc = "idle"
  /\ icall = NoInterpreterCall
  /\ ianswer = NoCall
  /\ acall = NoAggregateCall
  /\ aout = NotAggregated
  /\ OthersIdle

\* the query is typed, Search is clicked and the service answers
SearchCompletes(text, r) ==
  /\ ~isAnalyzing
  /\ ~SearchReturnsEarly(text, excelData)
  /\ Complete([query |-> trim(text), excel |-> excelData], r)
  /\ UNCHANGED inflight

\* FilterManager is rendered: {excelData && filters.length > 0 && ...}
ManagerShown == excelData.present /\ Len(filters) > 0

\* handleFiltersChange(newFilters), the onFiltersChange of FilterManager
HandleFiltersChange(newFilters) ==
  /\ filters' = newFilters
  /\ lastCall' = NoCall
  /\ UNCHANGED <<excelData, inputValue, isAnalyzing, aiAnalysis, filteredData,
                 hasSearched, inflight, now, legacyDate, fvars, ivars, avars, ovars>>

\* FilterManager.addNewFilter
AddNewFilter ==
  /\ ManagerShown
  /\ Len(excelData.headers) # 0
  /\ Len(filters) < MaxFilterList
  /\ HandleFiltersChange(
       Append(filters, [id |-> <<"filter", now>>, column |-> JStr(excelData.headers[1]),
                        operator |-> JStr(OpEquals), value |-> JStr(<<>>)]))
  /\ UNCHANGED aiSuggestedFilters

\* FilterManager.updateFilter(filterId, field, value)
UpdateFilter(filterId, field, value) ==
  /\ ManagerShown
  /\ HandleFiltersChange(
       [k \in DOMAIN filters |->
          IF filters[k].id = filterId
            THEN [filters[k] EXCEPT ![field] = JStr(value)]
            ELSE filters[k]])
  /\ UNCHANGED aiSuggestedFilters

\* FilterManager.removeFilter(filterId)
RemoveFilter(filterId) ==
  /\ ManagerShown
  /\ HandleFiltersChange(SelectSeq(filters, LAMBDA f : f.id # filterId))
  /\ UNCHANGED aiSuggestedFilters

\* FilterManager.acceptAISuggestion(suggestedFilter), with the
\* handleAcceptAISuggestion of the component as its onAcceptAISuggestion
AcceptAISuggestion(suggestedFilter) ==
  /\ ManagerShown
  /\ Len(filters) < MaxFilterList
  /\ HandleFiltersChange(Append(filters, [suggestedFilter EXCEPT !.id = <<"ai_filter", now>>]))
  /\ aiSuggestedFilters' =
       SelectSeq(aiSuggestedFilters,
                 LAMBDA f : ~(/\ f.column = suggestedFilter.column
                              /\ f.operator = suggestedFilter.operator
                              /\ f.value = suggestedFilter.value))

\* FilterManager.applyAllAISuggestions; Math.random() returns a value it
\* has not returned for an id still in the list
ApplyAllAISuggestions ==
  /\ ManagerShown
  /\ aiSuggestedFilters # <<>>
  /\ Len(filters) + Len(aiSuggestedFilters) <= MaxFilterList
  /\ \E draw \in [DOMAIN aiSuggestedFilters -> RandomDraws] :
       /\ \A i, j \in DOMAIN draw : i # j => draw[i] # draw[j]
       /\ \A i \in DOMAIN draw : \A k \in DOMAIN filters :
            filters[k].id # <<"ai_filter", now, "random", draw[i]>>
       /\ HandleFiltersChange(
            filters \o [i \in DOMAIN aiSuggestedFilters |->
                          [aiSuggestedFilters[i] EXCEPT
                             !.id = <<"ai_filter", now, "random", draw[i]>>]])
  /\ UNCHANGED aiSuggestedFilters

NextFilterList ==
  \/ \E text \in ListQueries : \E r \in ListResponses : SearchCompletes(text, r)
  \/ AddNewFilter
  \/ \E k \in DOMAIN filters : \E column \in Range(excelData.headers) :
       UpdateFilter(filters[k].id, "column", column)
  \/ \E k \in DOMAIN filters : \E operator \in OperatorChoices :
       UpdateFilter(filters[k].id, "operator", operator)
  \/ \E k \in DOMAIN filters : \E value \in ValueTexts :
       UpdateFilter(filters[k].id, "value", value)
  \/ \E k \in DOMAIN filters : RemoveFilter(filters[k].id)
  \/ \E k \in DOMAIN aiSuggestedFilters : AcceptAISuggestion(aiSuggestedFilters[k])
  \/ ApplyAllAISuggestions
  \/ Tick

SpecFilterList == InitFilterList /\ [][NextFilterList]_vars

\* C12: the ids of the filters in the list handed to FilterManager are
\* pairwise distinct after any sequence of filter-list operations, also
\* when two additions happen at one clock value.
C12_ListIdsDistinct ==
  \A i, j \in DOMAIN filters : i # j => filters[i].id # filters[j].id

\* the six operators of FilterCondition
SixOperators == {OpEquals, OpContains, OpGreater, OpLess, OpGreaterEqual, OpLessEqual}

\* C13: every filter of an InterpretationResult with success = true is a
\* well-formed FilterCondition (column a string, value a string, operator
\* one of the six), whatever elements the service returned.
C13_ResultFiltersWellFormed ==
  (ianswer.made /\ TheResult.success) =>
    \A k \in DOMAIN TheResult.filters :
      /\ TheResult.filters[k].column.t = "string"
      /\ TheResult.filters[k].value.t = "string"
      /\ TheResult.filters[k].operator.t = "string"
      /\ TheResult.filters[k].operator.s \in SixOperators

\* C14: when analyzeSearchQuery returns success = false, the step of
\* handleAISearch that receives it leaves the applied filter list, the
\* displayed rows and hasSearched as they were; it stores the result,
\* clears the analyzing flag and resets the query box.
C14_FailureLeavesDataAlone ==
  [][(lastCall'.made /\ lastCall'.outcome = "resolved" /\ ~lastCall'.result.success) =>
       /\ filters' = filters
       /\ filteredData' = filteredData
       /\ hasSearched' = hasSearched
       /\ aiAnalysis' = lastCall'.result
       /\ isAnalyzing' = FALSE
       /\ inputValue' = <<>>]_vars

\* a query has just failed while filters of an earlier query are applied
\* and rows are displayed
C14_Witness ==
  /\ lastCall.made
  /\ ~lastCall.result.success
  /\ aiAnalysis = lastCall.result
  /\ filters # <<>>
  /\ filteredData # <<>>
  /\ hasSearched

(***************************************************************************)
(* Aggregator: aggregateDataForChart.  The Map is the sequence of its      *)
(* entries in insertion order; an output row is a function from column     *)
(* names to values.  A quotient that is not an integer is kept as the      *)
(* fraction in lowest terms.  Array.prototype.sort with a comparator that  *)
(* is not consistent leaves the order to the engine: every permutation is  *)
(* an outcome.  localeCompare is modelled on digits and lower-case         *)
(* letters, which collate as digits before letters, each in its own order, *)
(* a proper prefix first.                                                  *)
(***************************************************************************)
RECURSIVE Gcd(_, _)
Gcd(a, b) == IF b = 0 THEN a ELSE Gcd(b, a % b)

\* a / b
JQuot(a, b) ==
  IF a % b = 0 THEN JNum(a \div b)
  ELSE [t |-> "number", s |-> <<>>, n |-> a \div Gcd(a, b), d |-> b \div Gcd(a, b)]

\* String(row[xAxis] || "")
XValueOf(row, xAxis) == IF xAxis \in DOMAIN row THEN row[xAxis] ELSE <<>>

NewEntry(xValue) == [key |-> xValue, sum |-> 0, count |-> 0, values |-> <<>>]

\* data.forEach((row) => ...), from row i on
RECURSIVE Accumulate(_, _, _, _, _)
Accumulate(aggregated, rows, i, xAxis, yAxis) ==
  IF i > Len(rows) THEN aggregated
  ELSE LET xValue == XValueOf(rows[i], xAxis)
           yValue == CellOf(rows[i], JStr(yAxis))
           withKey == IF \E k \in DOMAIN aggregated : aggregated[k].key = xValue
                        THEN aggregated
                        ELSE Append(aggregated, NewEntry(xValue))
           numValue == Number(yValue)
           updated ==
             [k \in DOMAIN withKey |->
                IF withKey[k].key # xValue THEN withKey[k]
                ELSE [key |-> xValue,
                      sum |-> IF isNaN(numValue) THEN withKey[k].sum
                              ELSE withKey[k].sum + numValue.v,
                      count |-> IF isNaN(numValue) THEN withKey[k].count
                                ELSE withKey[k].count + 1,
                      values |-> Append(withKey[k].values, yValue)]]
       IN Accumulate(updated, rows, i + 1, xAxis, yAxis)

\* result[k] = v
Put(f, k, v) == [c \in DOMAIN f \cup {k} |-> IF c = k THEN v ELSE f[c]]

s__count == <<"_","c","o","u","n","t">>
s__avg == <<"_","a","v","g">>

\* the map callback with the average taken over all the values of the group
EmitRow_AverageOverAll(xAxis, yAxis, entry) ==
  LET keyed == Put(<<>>, xAxis, JStr(entry.key)) IN
  IF entry.count > 0
    THEN Put(Put(Put(keyed, yAxis, JNum(entry.sum)),
                 yAxis \o s__count, JNum(entry.count)),
             yAxis \o s__avg, JQuot(entry.sum, Len(entry.values)))
    ELSE Put(keyed, yAxis, JNum(Len(entry.values)))

\* the callback of .map(([xValue, entry]) => ...)
EmitRow(xAxis, yAxis, entry) ==
  LET keyed == Put(<<>>, xAxis, JStr(entry.key)) IN
  IF entry.count > 0
    THEN Put(Put(Put(keyed, yAxis, JNum(entry.sum)),
                 yAxis \o s__count, JNum(entry.count)),
             yAxis \o s__avg, JQuot(entry.sum, entry.count))
    ELSE Put(keyed, yAxis, JNum(Len(entry.values)))

CollationRank ==
  [c \in DigitSet \cup Range(LowerLetters) |->
     IF c \in DigitSet THEN DigitVal(c)
     ELSE 10 + CHOOSE i \in DOMAIN LowerLetters : LowerLetters[i] = c]

\* a.localeCompare(b): negative, zero or positive
localeCompare(a, b) ==
  LET differ == {i \in 1..(IF Len(a) < Len(b) THEN Len(a) ELSE Len(b)) : a[i] # b[i]} IN
  IF a = b THEN 0
  ELSE IF differ = {} THEN (IF Len(a) < Len(b) THEN 0 - 1 ELSE 1)
  ELSE LET i == CHOOSE j \in differ : \A k \in differ : j <= k IN
       IF CollationRank[a[i]] < CollationRank[b[i]] THEN 0 - 1 ELSE 1

\* the comparator of .sort((a, b) => ...); String(aVal) is reached only
\* with a key that is not numeric, which is a string
Comparator(a, b, xAxis) ==
  LET aVal == a[xAxis]
      bVal == b[xAxis]
      aNum == Number(aVal)
      bNum == Number(bVal)
  IN IF ~isNaN(aNum) /\ ~isNaN(bNum) THEN aNum.v - bNum.v
     ELSE localeCompare(aVal.s, bVal.s)

Sign(n) == IF n < 0 THEN 0 - 1 ELSE IF n > 0 THEN 1 ELSE 0

\* the comparator is a consistent comparator for the elements of list
ConsistentComparator(list, xAxis) ==
  /\ \A i, j \in DOMAIN list :
       Sign(Comparator(list[i], list[j], xAxis)) = 0 - Sign(Comparator(list[j], list[i], xAxis))
  /\ \A i, j, k \in DOMAIN list :
       (Comparator(list[i], list[j], xAxis) <= 0 /\ Comparator(list[j], list[k], xAxis) <= 0)
         => Comparator(list[i], list[k], xAxis) <= 0

IndexOrders(n) == {p \in [1..n -> 1..n] : \A i, j \in 1..n : i # j => p[i] # p[j]}

\* the orders Array.prototype.sort may leave the list in: the stable sorted
\* order, or any order when the comparator is not consistent
SortOutcomes(list, xAxis) ==
  LET stable(p) ==
        \A i, j \in DOMAIN list :
          i < j => \/ Comparator(list[p[i]], list[p[j]], xAxis) < 0
                   \/ (Comparator(list[p[i]], list[p[j]], xAxis) = 0 /\ p[i] < p[j])
      orders == IF ConsistentComparator(list, xAxis)
                  THEN {p \in IndexOrders(Len(list)) : stable(p)}
                  ELSE IndexOrders(Len(list))
  IN {[i \in DOMAIN list |-> list[p[i]]] : p \in orders}

\* aggregateDataForChart(data, xAxis, yAxis): the lists it may return
aggregateDataForChart(rows, xAxis, yAxis) ==
  IF rows = <<>> \/ xAxis = <<>> \/ yAxis = <<>> THEN {rows}
  ELSE LET aggregated == Accumulate(<<>>, rows, 1, xAxis, yAxis)
           emitted == [k \in DOMAIN aggregated |-> EmitRow(xAxis, yAxis, aggregated[k])]
       IN SortOutcomes(emitted, xAxis)

(***************************************************************************)
(* Specification of the aggregator: any row list and any pair of axes,     *)
(* and one call of aggregateDataForChart on them.                          *)
(***************************************************************************)
MaxAggRows == 3

s_2 == <<"2">>
s_5 == <<"5">>
s_10 == <<"1","0">>
s_1a == <<"1","a">>

AggRowUniverse ==
  { GridRow(s_5, s_2), GridRow(s_5, s_10), GridRow(s_5, s_1a),
    GridRow(s_abc, s_2), GridRow(s_abc, s_10), GridRow(s_abc, s_1a),
    GridRow(s_empty, s_1a) }

\* chartConfig.xAxis, chartConfig.yAxis: a column, or "" when unset
Axes == {s_name, s_age, s_empty}

InitAggregate ==
  /\ acall \in [rows : SeqsUpTo(AggRowUniverse, MaxAggRows), xAxis : Axes, yAxis : Axes]
  /\ aout = NotAggregated
  /\ OthersIdle
  /\ legacyDate = [s \in {} |-> InvalidDate]
  /\ UIInit
  /\ data = <<>>
  /\ flt = <<>>
  /\ out = <<>>
  /\ out2 = <<>>
  /\ pc = "idle"
  /\ icall = NoInterpreterCall
  /\ ianswer = NoCall

Aggregate ==
  /\ ~aout.done
  /\ \E returned \in aggregateDataForChart(acall.rows, acall.xAxis, acall.yAxis) :
       aout' = [done |-> TRUE, rows |-> returned]
  /\ UNCHANGED <<acall, legacyDate, uivars, fvars, ivars, ovars>>

NextAggregate == Aggregate

SpecAggregate == InitAggregate /\ [][NextAggregate]_vars

(***************************************************************************)
(* Properties of the aggregator.                                           *)
(***************************************************************************)
\* the call went past the guard and aggregated
Aggregated ==
  aout.done /\ acall.rows # <<>> /\ acall.xAxis # <<>> /\ acall.yAxis # <<>>

\* the stringified x value of the i-th input row
KeyOfRow(i) ==
  IF acall.xAxis \in DOMAIN acall.rows[i] THEN acall.rows[i][acall.xAxis] ELSE <<>>

GroupKeys == {KeyOfRow(i) : i \in DOMAIN acall.rows}
\* the input rows of a group, and those of them whose y cell is numeric
GroupOf(key) == {i \in DOMAIN acall.rows : KeyOfRow(i) = key}
YNumber(i) ==
  IF acall.yAxis \in DOMAIN acall.rows[i]
    THEN StringToNumber(acall.rows[i][acall.yAxis])
    ELSE NaN
NumericOf(key) == {i \in GroupOf(key) : ~isNaN(YNumber(i))}

RECURSIVE SumOfY(_)
SumOfY(S) ==
  IF S = {} THEN 0
  ELSE LET i == CHOOSE j \in S : TRUE IN YNumber(i).v + SumOfY(S \ {i})

ReportedCount(o) ==
  IF (acall.yAxis \o s__count) \in DOMAIN o
    THEN o[acall.yAxis \o s__count].n
    ELSE o[acall.yAxis].n

\* C16 as stated: for every group of the output the reported count is the
\* number of input rows whose stringified x value is the group's key,
\* whether or not their y cells are numeric.
C16_CountIsGroupSize ==
  (Aggregated /\ acall.xAxis # acall.yAxis) =>
    \A k \in DOMAIN aout.rows :
      ReportedCount(aout.rows[k]) = Cardinality(GroupOf(aout.rows[k][acall.xAxis].s))

\* the output row o reports value and average of the group `key`
ReportsGroup(o, key) ==
  LET numeric == NumericOf(key)
      total == SumOfY(numeric)
  IN IF numeric # {}
       THEN /\ o[acall.yAxis] = JNum(total)
            /\ (acall.yAxis \o s__avg) \in DOMAIN o
            /\ LET avg == o[acall.yAxis \o s__avg] IN
               avg.n * Cardinality(numeric) =
                 total * (IF "d" \in DOMAIN avg THEN avg.d ELSE 1)
       ELSE o[acall.yAxis] = JNum(Cardinality(GroupOf(key)))

\* C17: for every group, if a y cell of the group parses as a number the
\* output value is the sum of exactly the numeric y cells and the average
\* is that sum divided by the number of numeric cells; if none does, the
\* output value is the number of rows of the group.
C17_SumAverageOrFrequency ==
  Aggregated =>
    \A key \in GroupKeys :
      \E k \in DOMAIN aout.rows :
        /\ acall.xAxis # acall.yAxis => aout.rows[k][acall.xAxis] = JStr(key)
        /\ ReportsGroup(aout.rows[k], key)

\* a group with a numeric and a non-numeric y cell was aggregated, beside a
\* group with no numeric y cell
C17_Witness ==
  /\ Aggregated
  /\ acall.xAxis # acall.yAxis
  /\ \E key \in GroupKeys : NumericOf(key) # {} /\ NumericOf(key) # GroupOf(key)
  /\ \E key \in GroupKeys : NumericOf(key) = {}

\* key a is not after key b: numerically if both parse as numbers,
\* lexicographically otherwise
KeyNotAfter(a, b) ==
  IF ~isNaN(Number(a)) /\ ~isNaN(Number(b))
    THEN Number(a).v <= Number(b).v
    ELSE localeCompare(a.s, b.s) <= 0

\* C18 as stated: the output has exactly one row per distinct stringified x
\* value and is sorted by group key, for every key set.
C18_OneRowPerKeySorted ==
  Aggregated =>
    /\ Len(aout.rows) = Cardinality(GroupKeys)
    /\ acall.xAxis # acall.yAxis =>
         \A key \in GroupKeys :
           \E k \in DOMAIN aout.rows : aout.rows[k][acall.xAxis] = JStr(key)
    /\ \A i, j \in DOMAIN aout.rows :
         i < j => KeyNotAfter(aout.rows[i][acall.xAxis], aout.rows[j][acall.xAxis])

(***************************************************************************)
(* Specification of the searches: the component with its uploads, its      *)
(* query box and its overlapping requests, on two query texts and two      *)
(* behaviours of the service (a transport failure and the documented       *)
(* success shape); no string of it reaches new Date().                     *)
(***************************************************************************)
SearchInputs == {s_hello, s_age_gt_28}
SearchResponses == {1, 11}

InitSearch ==
  /\ UIInit
  /\ legacyDate = [s \in {} |-> InvalidDate]
  /\ data = <<>>
  /\ flt = <<>>
  /\ out = <<>>
  /\ out2 = <<>>
  /\ pc = "idle"
  /\ icall = NoInterpreterCall
  /\ ianswer = NoCall
  /\ acall = NoAggregateCall
  /\ aout = NotAggregated
  /\ OthersIdle

NextSearch ==
  \/ \E table \in Tables : HandleFileUpload(table)
  \/ \E text \in SearchInputs : UpdateValue(text)
  \/ ClickSearch
  \/ PressEnter
  \/ \E i \in DOMAIN inflight : \E r \in SearchResponses : Resume(i, r)

SpecSearch == InitSearch /\ [][NextSearch]_vars

(***************************************************************************)
(* Properties of overlapping requests.                                     *)
(***************************************************************************)
\* C19 as stated: at most one analyzeSearchQuery call is outstanding at any
\* time, whatever Search clicks and Enter presses the user makes.
C19_AtMostOneOutstanding == Len(inflight) <= 1

\* this step resumes the i-th suspended call, which was started on a table
\* that an upload has replaced since, and its result is a success
LateSuccess(i) ==
  /\ i \in DOMAIN inflight
  /\ inflight' = RemoveAt(inflight, i)
  /\ lastCall'.made
  /\ lastCall'.outcome = "resolved"
  /\ lastCall'.result.success
  /\ excelData.present
  /\ inflight[i].excel # excelData

\* C20 as stated: when the table was replaced by an upload while the request
\* was in flight, the filteredData set when the request resolves is the
\* result of filtering the rows of the table that is current at that moment.
C20_LateResultFiltersCurrentTable ==
  [][\A i \in DOMAIN inflight :
       LateSuccess(i) =>
         LET applied == applyFilters(convertToGridData(excelData), lastCall'.result.filters)
         IN ~applied.threw => filteredData' = applied.rows]_vars

\* C20 amended: when the table was replaced by an upload while the request
\* was in flight, the late result is applied to the replaced table, the one
\* that was current when the request started: the filteredData set when
\* the request resolves is the result of filtering that table's rows, and
\* it is displayed (hasSearched) beside the new table, which stays loaded.
C20_LateResultFiltersReplacedTable ==
  [][\A i \in DOMAIN inflight :
       LateSuccess(i) =>
         LET applied == applyFilters(convertToGridData(inflight[i].excel),
                                     lastCall'.result.filters)
         IN /\ excelData' = excelData
            /\ filters' = lastCall'.result.filters
            /\ ~applied.threw => (filteredData' = applied.rows /\ hasSearched')]_vars

\* a late success has left on display a row that is not a row of the
\* loaded table
C20_Witness ==
  /\ lastCall.made
  /\ lastCall.result.success
  /\ excelData.present
  /\ hasSearched
  /\ filters = lastCall.result.filters
  /\ \E k \in DOMAIN filteredData :
       \A j \in DOMAIN convertToGridData(excelData) :
         filteredData[k] # convertToGridData(excelData)[j]

(***************************************************************************)
(* Properties of the success branch of handleAISearch.                     *)
(***************************************************************************)
\* this step resumes the i-th suspended call and its result is a success
SuccessStep(i) ==
  /\ i \in DOMAIN inflight
  /\ inflight' = RemoveAt(inflight, i)
  /\ lastCall'.made
  /\ lastCall'.outcome = "resolved"
  /\ lastCall'.result.success

\* C21 as stated: whenever handleAISearch processes a successful
\* interpretation, the stored filter list and the displayed rows change
\* together: after the step filters is the returned list, filteredData is
\* the result of applying that very list to the rows of the table the call
\* was made on, and hasSearched is set; the filter list is never replaced
\* while filteredData and hasSearched keep their previous values.
C21_FiltersAndRowsChangeTogether ==
  [][\A i \in DOMAIN inflight :
       SuccessStep(i) =>
         LET applied == applyFilters(convertToGridData(inflight[i].excel), filters')
         IN /\ filters' = lastCall'.result.filters
            /\ ~applied.threw
            /\ filteredData' = applied.rows
            /\ hasSearched']_vars

(***************************************************************************)
(* parseBasicQuery on its own: queries written as one or two clauses       *)
(* `name symbol value`, over the header rows an upload can produce.        *)
(***************************************************************************)
s_Name == <<"N","a","m","e">>
s_a == <<"a">>
s_ages == <<"a","g","e","s">>
s_x == <<"x">>
s_contains == <<"c","o","n","t","a","i","n","s">>
s_contain == <<"c","o","n","t","a","i","n">>

\* the words a clause names a column with: a header, a header in another
\* case, a part of two headers, a word with a header inside, no header
NameTokens == {s_age, s_Name, s_a, s_ages, s_x}
Symbols == { <<">">>, <<"<">>, <<">", "=">>, <<"<", "=">>, <<"=">>, s_contains, s_contain }
FirstClauses == [name : NameTokens, sym : Symbols, value : {s_28, s_ann}]
SecondClauses == [name : {s_age, s_Name}, sym : Symbols, value : {s_28}]
\* the separator between name, symbol and value
Separators == { <<>>, <<" ">> }
\* headers as handleFileUpload makes them: a blank header cell becomes ""
HeaderRows ==
  { <<s_age, s_name>>, <<s_Name, s_age>>, <<s_name, s_zip>>, <<s_empty, s_age>> }

ClauseText(c, sp) == c.name \o sp \o c.sym \o sp \o c.value
\* the query the user typed: the clauses, separated by ", "
QueryText(clauses, sp) ==
  IF Len(clauses) = 1 THEN ClauseText(clauses[1], sp)
  ELSE ClauseText(clauses[1], sp) \o <<",", " ">> \o ClauseText(clauses[2], sp)

InitPattern ==
  /\ pcall \in [clauses : {<<c>> : c \in FirstClauses}
                            \cup {<<c, d>> : c \in FirstClauses, d \in SecondClauses},
                sp : Separators, headers : HeaderRows, at : 0..MaxClock]
  /\ pout = NotParsed
  /\ SessionsIdle
  /\ StreamIdle
  /\ UIInit
  /\ legacyDate = [s \in {} |-> InvalidDate]
  /\ data = <<>>
  /\ flt = <<>>
  /\ out = <<>>
  /\ out2 = <<>>
  /\ pc = "idle"
  /\ icall = NoInterpreterCall
  /\ ianswer = NoCall
  /\ acall = NoAggregateCall
  /\ aout = NotAggregated

Parse ==
  /\ ~pout.done
  /\ pout' = [done |-> TRUE,
              filters |-> parseBasicQuery(QueryText(pcall.clauses, pcall.sp),
                                          pcall.headers, pcall.at)]
  /\ UNCHANGED <<pcall, legacyDate, uivars, fvars, ivars, avars, svars, stvars>>

NextPattern == Parse

SpecPattern == InitPattern /\ [][NextPattern]_vars

(***************************************************************************)
(* Properties of the pattern matcher.                                      *)
(***************************************************************************)
Parsed == pout.done
\* the column the code resolves the name of clause c to, or undefined
ClauseColumn(c) == FindColumn(pcall.headers, 1, toLowerCase(c.name))
\* clause c is `name sym digits` and the code resolves its name to a column
\* with a name
DigitClause(c, sym) ==
  /\ c.sym = sym
  /\ AllDigits(c.value)
  /\ Truthy(ClauseColumn(c))
\* the returned filters that have operator op
FiltersWith(op) == {i \in DOMAIN pout.filters : pout.filters[i].operator = JStr(op)}
\* the clauses of the query that are `name sym digits` with a resolved name
ClausesWith(sym) == {k \in DOMAIN pcall.clauses : DigitClause(pcall.clauses[k], sym)}
\* a returned filter for clause c with operator op
HasFilterFor(c, op) ==
  \E i \in DOMAIN pout.filters :
    /\ pout.filters[i].operator = JStr(op)
    /\ pout.filters[i].column = ClauseColumn(c)
    /\ pout.filters[i].value = JStr(c.value)

\* C22 as stated: a `name >= digits` clause matches both the greater and
\* the greaterEqual pattern, so the returned list holds a greater filter
\* and a greaterEqual filter for it; likewise `<=` gives less and lessEqual.
C22_GreaterEqualYieldsTwoFilters ==
  Parsed =>
    \A k \in DOMAIN pcall.clauses :
      LET c == pcall.clauses[k] IN
      /\ DigitClause(c, <<">", "=">>) =>
           HasFilterFor(c, OpGreater) /\ HasFilterFor(c, OpGreaterEqual)
      /\ DigitClause(c, <<"<", "=">>) =>
           HasFilterFor(c, OpLess) /\ HasFilterFor(c, OpLessEqual)

\* C22 amended: a `name >= digits` clause matches the greaterEqual pattern
\* only and a `name <= digits` clause the lessEqual pattern only: the
\* returned list holds exactly one filter with operator greater per `>`
\* clause, one with less per `<` clause, one with greaterEqual per `>=`
\* clause and one with lessEqual per `<=` clause, and each `>=` (`<=`)
\* clause has its greaterEqual (lessEqual) filter.
C22_GreaterEqualYieldsOneFilter ==
  Parsed =>
    /\ Cardinality(FiltersWith(OpGreater)) = Cardinality(ClausesWith(<<">">>))
    /\ Cardinality(FiltersWith(OpLess)) = Cardinality(ClausesWith(<<"<">>))
    /\ Cardinality(FiltersWith(OpGreaterEqual)) = Cardinality(ClausesWith(<<">", "=">>))
    /\ Cardinality(FiltersWith(OpLessEqual)) = Cardinality(ClausesWith(<<"<", "=">>))
    /\ \A k \in DOMAIN pcall.clauses :
         LET c == pcall.clauses[k] IN
         /\ DigitClause(c, <<">", "=">>) => HasFilterFor(c, OpGreaterEqual)
         /\ DigitClause(c, <<"<", "=">>) => HasFilterFor(c, OpLessEqual)

\* the query "age >= 28" on a table with an age column gave one filter
C22_Witness ==
  /\ Parsed
  /\ Len(pcall.clauses) = 1
  /\ DigitClause(pcall.clauses[1], <<">", "=">>)
  /\ Len(pout.filters) = 1
  /\ pout.filters[1].operator = JStr(OpGreaterEqual)

\* the six operators in the order of the patterns, and how each is written
OperatorOrder == <<OpGreater, OpLess, OpGreaterEqual, OpLessEqual, OpEquals, OpContains>>
WrittenAs(op) ==
  CASE op = OpGreater -> {<<">">>}
    [] op = OpLess -> {<<"<">>}
    [] op = OpGreaterEqual -> {<<">", "=">>}
    [] op = OpLessEqual -> {<<"<", "=">>}
    [] op = OpEquals -> {<<"=">>}
    [] op = OpContains -> {s_contains, s_contain}
\* clause c is a match of the pattern of op: the ordered operators want
\* digits, `contains` wants spaces around it
IsMatchOf(c, op) ==
  /\ c.sym \in WrittenAs(op)
  /\ IsOrderedOp(op) => AllDigits(c.value)
  /\ op = OpContains => pcall.sp # <<>>
\* the columns, by position, whose lower-cased name contains the token or
\* is contained in the token
Candidates(token) ==
  {i \in DOMAIN pcall.headers :
     \/ includes(toLowerCase(pcall.headers[i]), toLowerCase(token))
     \/ includes(toLowerCase(token), toLowerCase(pcall.headers[i]))}
FirstCandidate(token) ==
  CHOOSE i \in Candidates(token) : \A j \in Candidates(token) : i <= j
\* every (operator, clause) pair: operators in pattern order, and under
\* each operator the clauses in query order
MatchOrder ==
  [n \in 1..(Len(OperatorOrder) * Len(pcall.clauses)) |->
     [op |-> OperatorOrder[((n - 1) \div Len(pcall.clauses)) + 1],
      c |-> pcall.clauses[((n - 1) % Len(pcall.clauses)) + 1]]]
\* the matches that have a column to resolve to
ResolvedMatches ==
  SelectSeq(MatchOrder, LAMBDA m : IsMatchOf(m.c, m.op) /\ Candidates(m.c.name) # {})
\* column and operator of the filters the claim expects, in order
ExpectedFilters ==
  [n \in DOMAIN ResolvedMatches |->
     [column |-> JStr(pcall.headers[FirstCandidate(ResolvedMatches[n].c.name)]),
      operator |-> JStr(ResolvedMatches[n].op)]]
ReturnedFilters ==
  [n \in DOMAIN pout.filters |->
     [column |-> pout.filters[n].column, operator |-> pout.filters[n].operator]]

\* C23 as stated: each regex match is resolved to the first column, in
\* table order, whose lower-cased name contains the token or is contained
\* in it, and becomes a filter on that column (named as the table names
\* it); a match with no such column gives no filter; the filters come
\* grouped in the operator order greater, less, greaterEqual, lessEqual,
\* equals, contains.
C23_FirstColumnInPatternOrder == Parsed => ReturnedFilters = ExpectedFilters

(***************************************************************************)
(* applyFilters with one equals or contains filter, on cells and filter    *)
(* values that differ in case, are empty, or are "0".                       *)
(***************************************************************************)
s_0 == <<"0">>
s_oh == <<"o","h">>
MatchRows ==
  { GridRow(s_0, s_John), GridRow(s_30, s_JOHN), GridRow(s_empty, s_ann),
    GridRow(s_0, s_empty) }
MatchFilters ==
  { TypedFilter(1, column, operator, value) :
      column \in {s_age, s_name}, operator \in {OpEquals, OpContains},
      value \in {s_0, s_empty, s_JOHN, s_oh, s_ann} }

InitMatch ==
  /\ data \in SeqsUpTo(MatchRows, MaxRows) \ {<<>>}
  /\ flt \in {<<f>> : f \in MatchFilters}
  /\ legacyDate = [s \in {} |-> InvalidDate]
  /\ out = <<>>
  /\ out2 = <<>>
  /\ pc = "start"
  /\ UIInit
  /\ icall = NoInterpreterCall
  /\ ianswer = NoCall
  /\ acall = NoAggregateCall
  /\ aout = NotAggregated
  /\ OthersIdle

NextMatch == Apply

SpecMatch == InitMatch /\ [][NextMatch]_vars

\* a and b are the same string when the case of the letters is ignored
EqualIgnoringCase(a, b) ==
  /\ Len(a) = Len(b)
  /\ \A i \in DOMAIN a : LowerChar(a[i]) = LowerChar(b[i])
\* v occurs in c, case ignored
SubstringIgnoringCase(v, c) ==
  \E from \in 0..(Len(c) - Len(v)) :
    \A i \in DOMAIN v : LowerChar(c[from + i]) = LowerChar(v[i])
\* the cell the one filter of the call looks at, in a row
TheCell(row) == row[flt[1].column.s]
TheValue == flt[1].value.s
Kept(row) == InSeq(row, out)

\* C24: an equals filter keeps exactly the rows whose cell equals the filter
\* value ignoring case, and a contains filter exactly the rows whose cell
\* has the filter value as a substring ignoring case; so contains with ""
\* keeps every row whose cell is non-empty, and a cell "0" passes equals "0".
C24_EqualsAndContains ==
  pc = "applied" =>
    /\ IsSubseq(out, data)
    /\ \A k \in DOMAIN data :
         /\ flt[1].operator.s = OpEquals =>
              (Kept(data[k]) <=> EqualIgnoringCase(TheCell(data[k]), TheValue))
         /\ flt[1].operator.s = OpContains =>
              (Kept(data[k]) <=> SubstringIgnoringCase(TheValue, TheCell(data[k])))
         /\ (flt[1].operator.s = OpContains /\ TheValue = <<>> /\ TheCell(data[k]) # <<>>) =>
              Kept(data[k])
         /\ (flt[1].operator.s = OpEquals /\ TheValue = s_0 /\ TheCell(data[k]) = s_0) =>
              Kept(data[k])

\* equals "0" kept the row with the cell "0" and dropped the other row
C24_Witness ==
  /\ pc = "applied"
  /\ flt[1].operator.s = OpEquals
  /\ TheValue = s_0
  /\ Len(data) = 2
  /\ Len(out) = 1
  /\ TheCell(out[1]) = s_0

(***************************************************************************)
(* convertToGridData on tables with two columns, of one name or of two,    *)
(* followed by applyFilters with one filter.                               *)
(***************************************************************************)
GridHeaderRows == { <<s_name, s_name>>, <<s_age, s_name>>, <<s_age, s_age>> }
GridCells == {s_John, s_ann, s_empty}
GridTables ==
  { ExcelData(headers, rows) :
      headers \in GridHeaderRows,
      rows \in SeqsUpTo({<<c, d>> : c \in GridCells, d \in GridCells}, MaxRows) \ {<<>>} }
GridFilters ==
  { TypedFilter(1, s_name, OpEquals, s_John), TypedFilter(1, s_name, OpEquals, s_ann),
    TypedFilter(1, s_age, OpContains, s_oh) }

InitGrid ==
  /\ UIInit
  /\ data = <<>>
  /\ flt \in {<<f>> : f \in GridFilters}
  /\ legacyDate = [s \in {} |-> InvalidDate]
  /\ out = <<>>
  /\ out2 = <<>>
  /\ pc = "idle"
  /\ icall = NoInterpreterCall
  /\ ianswer = NoCall
  /\ acall = NoAggregateCall
  /\ aout = NotAggregated
  /\ OthersIdle

\* allGridData = convertToGridData(excelData)
Convert ==
  /\ pc = "idle"
  /\ excelData.present
  /\ data' = convertToGridData(excelData)
  /\ pc' = "start"
  /\ UNCHANGED <<flt, out, out2, legacyDate, uivars, ivars, avars, ovars>>

NextGrid ==
  \/ \E table \in GridTables : pc = "idle" /\ ~excelData.present /\ HandleFileUpload(table)
  \/ Convert
  \/ Apply

SpecGrid == InitGrid /\ [][NextGrid]_vars

\* the positions of the columns called h
ColumnsNamed(h) == {j \in DOMAIN excelData.headers : excelData.headers[j] = h}
FirstNamed(h) == CHOOSE j \in ColumnsNamed(h) : \A k \in ColumnsNamed(h) : j <= k
LastNamed(h) == CHOOSE j \in ColumnsNamed(h) : \A k \in ColumnsNamed(h) : k <= j
Converted == pc \in {"start", "applied"}
\* the rows of the table, by position, whose cell in column j passes the
\* one filter of the call
RowsPassing(j) ==
  {i \in DOMAIN excelData.rows :
     IF flt[1].operator.s = OpEquals
       THEN EqualIgnoringCase(excelData.rows[i][j], flt[1].value.s)
       ELSE SubstringIgnoringCase(flt[1].value.s, excelData.rows[i][j])}
\* the filter's column is a column of the table
FilterOnColumn == ColumnsNamed(flt[1].column.s) # {}

\* C25 as stated: the Record of a row holds, under a column name, the cell
\* of the first column of that name, and a filter on the name keeps the
\* rows whose cell in that first column passes.
C25_FirstDuplicateWins ==
  /\ Converted =>
       \A i \in DOMAIN data : \A h \in DOMAIN data[i] :
         data[i][h] = excelData.rows[i][FirstNamed(h)]
  /\ (pc = "applied" /\ FilterOnColumn) =>
       Len(out) = Cardinality(RowsPassing(FirstNamed(flt[1].column.s)))

\* C25 amended: the Record of a row holds, under a column name, the cell
\* of the last column of that name (a later column overwrites an earlier
\* one), and a filter on the name keeps the rows whose cell in that last
\* column passes.
C25_LastDuplicateWins ==
  /\ Converted =>
       /\ Len(data) = Len(excelData.rows)
       /\ \A i \in DOMAIN data :
            /\ DOMAIN data[i] = Range(excelData.headers)
            /\ \A h \in DOMAIN data[i] : data[i][h] = excelData.rows[i][LastNamed(h)]
  /\ (pc = "applied" /\ FilterOnColumn) =>
       /\ Len(out) = Cardinality(RowsPassing(LastNamed(flt[1].column.s)))
       /\ \A k \in DOMAIN out :
            \E i \in RowsPassing(LastNamed(flt[1].column.s)) : out[k] = data[i]

\* a table with two columns called name: the filter kept a row that passes
\* on its second cell and not on its first
C25_Witness ==
  /\ pc = "applied"
  /\ Cardinality(ColumnsNamed(flt[1].column.s)) = 2
  /\ Len(out) = 1
  /\ \E i \in DOMAIN excelData.rows :
       /\ out[1] = data[i]
       /\ i \in RowsPassing(LastNamed(flt[1].column.s))
       /\ i \notin RowsPassing(FirstNamed(flt[1].column.s))

(***************************************************************************)
(* Properties of the analyzing flag.                                       *)
(***************************************************************************)
\* C26 as stated: isAnalyzing is true exactly while at least one
\* analyzeSearchQuery request started by handleAISearch has not resolved,
\* also when two submissions overlap and resolve at different times.
C26_AnalyzingTracksInFlight == isAnalyzing <=> (inflight # <<>>)

(***************************************************************************)
(* Sessions: saveSession and loadSession, between uploads and searches.    *)
(***************************************************************************)
SessionResponses == {1, 11}

InitSession ==
  /\ UIInit
  /\ savedSessions = <<>>
  /\ PatternIdle
  /\ StreamIdle
  /\ legacyDate = [s \in {} |-> InvalidDate]
  /\ data = <<>>
  /\ flt = <<>>
  /\ out = <<>>
  /\ out2 = <<>>
  /\ pc = "idle"
  /\ icall = NoInterpreterCall
  /\ ianswer = NoCall
  /\ acall = NoAggregateCall
  /\ aout = NotAggregated

\* saveSession(), the onClick of the Save button, shown with a table loaded
SaveSession ==
  /\ excelData.present
  /\ Len(savedSessions) < MaxSessions
  /\ savedSessions' =
       Append(savedSessions,
              [id |-> <<"session", now>>, excelData |-> excelData, filters |-> filters,
               hasSearched |-> hasSearched, searchQuery |-> inputValue])
  /\ lastCall' = NoCall
  /\ UNCHANGED <<excelData, inputValue, isAnalyzing, aiAnalysis, filters,
                 aiSuggestedFilters, filteredData, hasSearched, inflight, now,
                 legacyDate, fvars, ivars, avars, pvars, stvars>>

\* savedSessions.find(s => s.id === sessionId)
FindSession(sessionId) ==
  savedSessions[CHOOSE i \in DOMAIN savedSessions :
                  /\ savedSessions[i].id = sessionId
                  /\ \A j \in DOMAIN savedSessions : savedSessions[j].id = sessionId => i <= j]

\* loadSession(sessionId), the onValueChange of the Load select, shown with
\* a table loaded and a session saved
LoadSession(sessionId) ==
  /\ excelData.present
  /\ \E i \in DOMAIN savedSessions : savedSessions[i].id = sessionId
  /\ \E session \in {FindSession(sessionId)} :
       /\ excelData' = session.excelData
       /\ filters' = session.filters
       /\ hasSearched' = session.hasSearched
       /\ IF session.excelData.present /\ Len(session.filters) > 0
            THEN LET applied == applyFilters(convertToGridData(session.excelData),
                                             session.filters)
                 IN IF applied.threw THEN UNCHANGED filteredData
                    ELSE filteredData' = applied.rows
            ELSE UNCHANGED filteredData
  /\ lastCall' = NoCall
  /\ UNCHANGED <<inputValue, isAnalyzing, aiAnalysis, aiSuggestedFilters, inflight, now,
                 legacyDate, fvars, ivars, avars, ovars>>

NextSession ==
  \/ \E table \in Tables : HandleFileUpload(table)
  \/ \E text \in ListQueries : \E r \in SessionResponses : SearchCompletes(text, r)
  \/ SaveSession
  \/ \E i \in DOMAIN savedSessions : LoadSession(savedSessions[i].id)
  \/ Tick

SpecSession == InitSession /\ [][NextSession]_vars

\* C27 as stated: after loadSession(id) for a saved session that contains a
\* table, filteredData is the result of applying the session's filters to
\* the rows of the session's table, also when the session's filter list is
\* empty, whatever filteredData held before.
C27_LoadShowsTheSession ==
  [][\A i \in DOMAIN savedSessions :
       LET session == FindSession(savedSessions[i].id) IN
       (LoadSession(savedSessions[i].id) /\ session.excelData.present) =>
          filteredData' = applyFilters(convertToGridData(session.excelData),
                                       session.filters).rows]_vars

(***************************************************************************)
(* useStream: sendMessage, stopStream, clearMessages and clearError, and   *)
(* the steps at which a suspended sendMessage call resumes.                *)
(***************************************************************************)
s_Error == <<"E","r","r","o","r",":"," ">>
\* what the user sends, what a `chunk` carries, what an `error` chunk
\* carries, the message of a failed fetch
MessageTexts == {s_hello}
ChunkTexts == {s_a}
ErrorTexts == {s_quota}
FailureTexts == {s_down}
\* the StreamChunk of one `data: ` line
StreamChunk(type, content) == [type |-> type, content |-> content]
StreamChunks ==
  {StreamChunk("start", <<>>), StreamChunk("end", <<>>)}
    \cup {StreamChunk("chunk", t) : t \in ChunkTexts}
    \cup {StreamChunk("error", t) : t \in ErrorTexts}
StreamMessage(id, role, content, streaming) ==
  [id |-> id, role |-> role, content |-> content, isStreaming |-> streaming]

InitStream ==
  /\ StreamIdle
  /\ PatternIdle
  /\ SessionsIdle
  /\ UIInit
  /\ legacyDate = [s \in {} |-> InvalidDate]
  /\ data = <<>>
  /\ flt = <<>>
  /\ out = <<>>
  /\ out2 = <<>>
  /\ pc = "idle"
  /\ icall = NoInterpreterCall
  /\ ianswer = NoCall
  /\ acall = NoAggregateCall
  /\ aout = NotAggregated

\* what no step of useStream touches
StreamFrame == UNCHANGED <<legacyDate, uivars, fvars, ivars, avars, pvars, svars>>

\* abortControllerRef.current.abort(): the signal of that call is aborted
Aborted(cs, ref) == IF ref = 0 THEN cs ELSE [cs EXCEPT ![ref].aborted = TRUE]

\* stopStream()
StopStream ==
  /\ calls' = Aborted(calls, abortControllerRef)
  /\ abortControllerRef' = 0
  /\ isStreaming' = FALSE
  /\ UNCHANGED <<messages, streamError, currentAssistantMessageRef, nextId>>
  /\ StreamFrame

\* sendMessage(message) up to its `await fetch(...)`; generateId is taken
\* to return a value it has not returned before
SendMessage(message) ==
  /\ Len(calls) < MaxCalls
  /\ trim(message) # <<>>
  /\ messages' = Append(messages, StreamMessage(nextId + 1, "user", message, FALSE))
  /\ nextId' = nextId + 1
  /\ isStreaming' = TRUE
  /\ streamError' = NoStreamError
  /\ abortControllerRef' = Len(calls) + 1
  /\ currentAssistantMessageRef' = <<>>
  /\ calls' = Append(Aborted(calls, abortControllerRef),
                     [message |-> message, at |-> "fetch", aborted |-> FALSE,
                      assistantMessageId |-> 0, received |-> <<>>])
  /\ StreamFrame

\* the `finally` of sendMessage: setIsStreaming(false), the ref set to null
Finally(c) ==
  /\ isStreaming' = FALSE
  /\ abortControllerRef' = 0

\* the outer catch for an error that is not an AbortError, then the finally
CatchError(c, errorMessage) ==
  /\ streamError' = errorMessage
  /\ messages' = Append(messages,
                        StreamMessage(nextId + 1, "assistant", s_Error \o errorMessage, FALSE))
  /\ nextId' = nextId + 1
  /\ Finally(c)

\* the fetch or the read of an aborted call rejects with an AbortError: the
\* outer catch returns, the finally runs
AbortRejects(c) ==
  /\ calls[c].at \in {"fetch", "read"}
  /\ calls[c].aborted
  /\ calls' = [calls EXCEPT ![c].at = "done"]
  /\ Finally(c)
  /\ UNCHANGED <<messages, streamError, currentAssistantMessageRef, nextId>>
  /\ StreamFrame

\* fetch rejects, or the response is not ok or has no body
FetchFails(c, errorMessage) ==
  /\ calls[c].at = "fetch"
  /\ ~calls[c].aborted
  /\ calls' = [calls EXCEPT ![c].at = "done"]
  /\ CatchError(c, errorMessage)
  /\ UNCHANGED currentAssistantMessageRef
  /\ StreamFrame

\* fetch resolves with an ok response: the assistant message is added and
\* the call waits at reader.read()
FetchResolves(c) ==
  /\ calls[c].at = "fetch"
  /\ ~calls[c].aborted
  /\ calls' = [calls EXCEPT ![c].at = "read", ![c].assistantMessageId = nextId + 1]
  /\ messages' = Append(messages, StreamMessage(nextId + 1, "assistant", <<>>, TRUE))
  /\ nextId' = nextId + 1
  /\ UNCHANGED <<isStreaming, streamError, abortControllerRef, currentAssistantMessageRef>>
  /\ StreamFrame

\* reader.read() resolves with one `data: ` line, which the switch handles.
\* The Error thrown for an `error` chunk is caught by the catch around
\* JSON.parse and the switch, which logs it; the loop goes on.
ReadChunk(c, chunk) ==
  /\ calls[c].at = "read"
  /\ ~calls[c].aborted
  /\ Len(calls[c].received) < MaxChunks
  /\ CASE chunk.type = "start" ->
            /\ calls' = [calls EXCEPT ![c].received = Append(@, chunk)]
            /\ UNCHANGED <<messages, isStreaming, streamError, abortControllerRef,
                           currentAssistantMessageRef>>
       [] chunk.type = "chunk" ->
            /\ calls' = [calls EXCEPT ![c].received = Append(@, chunk)]
            /\ currentAssistantMessageRef' = currentAssistantMessageRef \o chunk.content
            /\ messages' =
                 [k \in DOMAIN messages |->
                    IF messages[k].id = calls[c].assistantMessageId
                      THEN [messages[k] EXCEPT !.content = currentAssistantMessageRef']
                      ELSE messages[k]]
            /\ UNCHANGED <<isStreaming, streamError, abortControllerRef>>
       [] chunk.type = "end" ->
            /\ calls' = [calls EXCEPT ![c].received = Append(@, chunk), ![c].at = "done"]
            /\ messages' =
                 [k \in DOMAIN messages |->
                    IF messages[k].id = calls[c].assistantMessageId
                      THEN [messages[k] EXCEPT !.isStreaming = FALSE]
                      ELSE messages[k]]
            /\ Finally(c)
            /\ UNCHANGED <<streamError, currentAssistantMessageRef>>
       [] chunk.type = "error" ->
            /\ calls' = [calls EXCEPT ![c].received = Append(@, chunk)]
            /\ UNCHANGED <<messages, isStreaming, streamError, abortControllerRef,
                           currentAssistantMessageRef>>
  /\ UNCHANGED nextId
  /\ StreamFrame

\* reader.read() resolves with done: the loop breaks, the finally runs
ReadDone(c) ==
  /\ calls[c].at = "read"
  /\ ~calls[c].aborted
  /\ calls' = [calls EXCEPT ![c].at = "done"]
  /\ Finally(c)
  /\ UNCHANGED <<messages, streamError, currentAssistantMessageRef, nextId>>
  /\ StreamFrame

\* clearMessages()
ClearMessages ==
  /\ messages # <<>>
  /\ messages' = <<>>
  /\ streamError' = NoStreamError
  /\ UNCHANGED <<isStreaming, abortControllerRef, currentAssistantMessageRef, calls, nextId>>
  /\ StreamFrame

\* clearError()
ClearError ==
  /\ streamError # NoStreamError
  /\ streamError' = NoStreamError
  /\ UNCHANGED <<messages, isStreaming, abortControllerRef, currentAssistantMessageRef,
                 calls, nextId>>
  /\ StreamFrame

NextStream ==
  \/ \E message \in MessageTexts : SendMessage(message)
  \/ StopStream
  \/ \E c \in DOMAIN calls : AbortRejects(c)
  \/ \E c \in DOMAIN calls : \E errorMessage \in FailureTexts : FetchFails(c, errorMessage)
  \/ \E c \in DOMAIN calls : FetchResolves(c)
  \/ \E c \in DOMAIN calls : \E chunk \in StreamChunks : ReadChunk(c, chunk)
  \/ \E c \in DOMAIN calls : ReadDone(c)
  \/ ClearMessages
  \/ ClearError

SpecStream == InitStream /\ [][NextStream]_vars

(***************************************************************************)
(* Properties of useStream.                                                *)
(***************************************************************************)
\* call c has been started and has neither ended, failed nor been stopped
Live(c) == calls[c].at # "done" /\ ~calls[c].aborted
\* every call before c has run to its end, its finally included
EarlierUnwound(c) == \A b \in DOMAIN calls : b < c => calls[b].at = "done"

\* C28 as stated: when sendMessage was called while a previous stream was
\* active, then once the aborted call has finished unwinding
\* abortControllerRef still holds the controller of the new stream (so
\* that stopStream aborts it), for as long as the new stream is live.
C28_NewStreamStaysControllable ==
  \A c \in DOMAIN calls :
    (c > 1 /\ c = Len(calls) /\ Live(c) /\ EarlierUnwound(c)) => abortControllerRef = c

\* C29 as stated: isStreaming is true in every state in which some
\* sendMessage call has been started and has neither received its `end`
\* chunk, failed, nor been stopped by stopStream.
C29_StreamingWhileLive == (\E c \in DOMAIN calls : Live(c)) => isStreaming

\* this step hands call c one more chunk
Receives(c, chunk) == calls'[c].received = Append(calls[c].received, chunk)
HadError(c) == \E k \in DOMAIN calls[c].received : calls[c].received[k].type = "error"

\* C30 as stated: when a stream receives a chunk of type `error`, the
\* stream ends in the error state: error is the chunk's content, an
\* assistant message "Error: <content>" is appended, the call is over; and
\* no chunk of that stream after it modifies the messages.
C30_ErrorChunkEndsStream ==
  [][\A c \in DOMAIN calls :
       /\ \A content \in ErrorTexts :
            Receives(c, StreamChunk("error", content)) =>
              /\ streamError' = content
              /\ Len(messages') = Len(messages) + 1
              /\ messages'[Len(messages')].role = "assistant"
              /\ messages'[Len(messages')].content = s_Error \o content
              /\ calls'[c].at = "done"
       /\ (HadError(c) /\ calls'[c].received # calls[c].received) =>
            messages' = messages]_vars

=============================================================================
